---- MODULE Spec2Model ----
(***************************************************************************)
(* Device fleet version manager: the probe-and-reconcile engine of         *)
(* src/version_manager/server.py (App.poll_and_record and the handlers     *)
(* that write device state) over the store of src/version_manager/db.py.   *)
(*                                                                         *)
(* Tables are sets or sequences of rows.  An optional row (Python None or  *)
(* a dict) is a set with zero or one element.  Strings whose characters    *)
(* matter (versions, globs, paths) are state values as plain strings and   *)
(* are matched through Chars, their character sequences.                   *)
(***************************************************************************)
EXTENDS Integers, Sequences, FiniteSets, TLC

VARIABLES
    devices,            \* table devices: sequence of rows, row i has id i
    baselines,          \* table baselines: set of rows, one per triple
    snapshots,          \* table device_snapshots: sequence of rows, row i has id i
    events,             \* table events: sequence of rows, row i has id i
    workers,            \* position and locals of each thread running poll_and_record
    db_cf_api,          \* does the Database object have the controlled-file methods
    rule_requests,      \* rules operators have POSTed to /api/v1/controlled-file-rules
    controlled_file_rules, \* rules the store holds (only a store with the methods)
    call,               \* a function applied on its own: its arguments and result
    fanout,             \* the scheduler loop and the fan-out passes over the pool
    version_catalog     \* table version_catalog: (vendor, model, main_version)

vars == <<devices, baselines, snapshots, events, workers, db_cf_api,
          rule_requests, controlled_file_rules, call, fanout, version_catalog>>

store_vars == <<devices, baselines, snapshots, events, workers, db_cf_api,
                rule_requests, controlled_file_rules, version_catalog>>

----------------------------------------------------------------------------
(* Bounds of the model *)

MaxDevices == 1
MaxWorkers == 2
MaxSnapshots == 2
MaxEvents == 4

----------------------------------------------------------------------------
(* Values *)

NULL == "null"          \* None / SQL NULL where the other values are strings
NoId == 0               \* None where the other values are row ids (ids start at 1)

Chars(s) ==
    CASE s = "1.0"   -> <<"1", ".", "0">>
      [] s = "1.1"   -> <<"1", ".", "1">>
      [] s = "1.*"   -> <<"1", ".", "*">>
      [] s = "a.yml" -> <<"a", ".", "y", "m", "l">>
      [] s = "b.txt" -> <<"b", ".", "t", "x", "t">>
      [] s = "*.yml" -> <<"*", ".", "y", "m", "l">>
      [] s = "1.8.2" -> <<"1", ".", "8", ".", "2">>
      [] s = "1.8.3" -> <<"1", ".", "8", ".", "3">>
      [] s = "1.9.0" -> <<"1", ".", "9", ".", "0">>
      [] s = "a.1"   -> <<"a", ".", "1">>
      [] s = "1.8.*" -> <<"1", ".", "8", ".", "*">>
      [] s = "1.?.0" -> <<"1", ".", "?", ".", "0">>
      [] s = "A.*"   -> <<"A", ".", "*">>
      [] OTHER       -> <<>>

Versions == {"1.0", "1.1"}
Triples == {"t1"}                   \* (cluster_id, vendor, model) of a device
NoClusterTriples == {"t0"}          \* a triple whose cluster_id has no row in clusters
Keys == 1 .. MaxDevices             \* device_key values (serials)
DeviceIds == 1 .. MaxDevices        \* ids of the rows of table devices
Paths == {"a.yml"}
Fingerprints == {"fa", "fb"}
States == {"ok", "mismatch", "offline", "no_baseline", "files_changed"}


----------------------------------------------------------------------------
(* fnmatch.fnmatchcase over character sequences: "*" matches any run,       *)
(* "?" any one character, anything else itself ("[" is not in the alphabet) *)

RECURSIVE fnmatchcase(_, _)
fnmatchcase(name, pat) ==
    IF pat = <<>> THEN name = <<>>
    ELSE IF Head(pat) = "*"
         THEN fnmatchcase(name, Tail(pat))
              \/ (name # <<>> /\ fnmatchcase(Tail(name), pat))
         ELSE /\ name # <<>>
              /\ (Head(pat) = "?" \/ Head(pat) = Head(name))
              /\ fnmatchcase(Tail(name), Tail(pat))

(* baseline_allows without its loop over the globs *)
baseline_allows_expected_only(baseline, observed_main) ==
    observed_main = baseline.expected_main_version

(* Database.baseline_allows *)
baseline_allows(baseline, observed_main) ==
    \/ observed_main = baseline.expected_main_version
    \/ \E g \in baseline.allowed_main_globs :
           fnmatchcase(Chars(observed_main), Chars(g))

----------------------------------------------------------------------------
(* What a device can answer to one probe (poller.poll_device): a failure,   *)
(* or a DVP payload with versions.main and, optionally, a files array.      *)

NoFiles == [supported |-> FALSE, entries |-> {}]
FilesChoices ==
    {NoFiles} \cup
    { [supported |-> TRUE, entries |-> {[path |-> p, fingerprint |-> f]}] :
          p \in Paths, f \in Fingerprints }

PollFailure == [success |-> FALSE, main_version |-> NULL, files |-> NoFiles]
PollResults ==
    {PollFailure} \cup
    { [success |-> TRUE, main_version |-> "1.0", files |-> f] : f \in FilesChoices }
    \cup
    { [success |-> TRUE, main_version |-> v, files |-> f] :
          v \in Versions \ {"1.0"},
          f \in { g \in FilesChoices :
                     \E e \in g.entries : e.fingerprint = "fa" } }

BaselineChoices ==
    { [expected_main_version |-> "1.0", allowed_main_globs |-> {}] }

RuleChoices ==
    { [paths |-> {"*.yml"}, mode |-> "auto", max_bytes |-> 8192] }

----------------------------------------------------------------------------
(* Store reads (db.py) *)

Rows(table) == { table[i] : i \in 1 .. Len(table) }

(* ORDER BY <time> DESC, id DESC LIMIT 1 over a set of rows.  A row's time  *)
(* (observed_at, created_at) is read from the clock when the row is         *)
(* inserted and ids grow with every insert, so the latest row by            *)
(* (time, id) is the row with the largest id; times are not kept.           *)
Latest(rows) == { r \in rows : \A o \in rows : r.id >= o.id }

(* Ids are AUTOINCREMENT: a deleted row's id is never used again.  A       *)
(* deleted row keeps its place in the sequence as a row that no query       *)
(* selects: a device without triple and key, a snapshot or event of no      *)
(* device.                                                                  *)
GoneDevice(id) ==
    [id |-> id, triple |-> NULL, device_key |-> NoId, last_state |-> NULL]

GoneSnapshot(id) ==
    [id |-> id, device_id |-> NoId, success |-> FALSE, main_version |-> NULL,
     files |-> NoFiles]

GoneEvent(id) ==
    [id |-> id, device_id |-> NoId, event_type |-> NULL, old_state |-> NULL,
     new_state |-> NULL, changes |-> {}, current_snapshot_id |-> NoId,
     ack_change_event_id |-> NoId]

Exists(devs, device_id) ==
    device_id \in 1 .. Len(devs) /\ devs[device_id] # GoneDevice(device_id)

get_device(device_id) ==
    IF Exists(devices, device_id) THEN {devices[device_id]} ELSE {}

get_device_by_key(device_key) ==
    { d \in Rows(devices) : d.device_key = device_key }

get_baseline(triple) ==
    { b \in baselines : b.triple = triple }

(* get_latest_snapshot reading the successful snapshots only *)
get_latest_snapshot_success_only(device_id) ==
    Latest({ s \in Rows(snapshots) : s.device_id = device_id /\ s.success })

get_latest_snapshot(device_id) ==
    Latest({ s \in Rows(snapshots) : s.device_id = device_id })

get_latest_success_snapshot(device_id) ==
    Latest({ s \in Rows(snapshots) : s.device_id = device_id /\ s.success })

(* Store writes (db.py), as the new value of the table *)

(* record_snapshot that inserts no row *)
record_snapshot_skip(device_id, res) == snapshots

record_snapshot(device_id, res) ==
    Append(snapshots,
           [id |-> Len(snapshots) + 1, device_id |-> device_id,
            success |-> res.success,
            main_version |-> res.main_version, files |-> res.files])

(* INSERT INTO version_catalog ... ON CONFLICT DO NOTHING; the vendor and   *)
(* model are those of the triple                                            *)
NoMeta ==
    [changelog_md |-> NULL, released_at |-> NULL, risk_level |-> NULL,
     checksum |-> NULL]

CatalogRow(triple, main_version, meta) ==
    [triple |-> triple, main_version |-> main_version,
     changelog_md |-> meta.changelog_md, released_at |-> meta.released_at,
     risk_level |-> meta.risk_level, checksum |-> meta.checksum]

get_version_catalog_item(catalog, triple, main_version) ==
    {r \in catalog : r.triple = triple /\ r.main_version = main_version}

(* INSERT ... ON CONFLICT(vendor, model, main_version) DO UPDATE SET the    *)
(* four metadata columns                                                    *)
upsert_version_catalog(catalog, triple, main_version, meta) ==
    (catalog \ get_version_catalog_item(catalog, triple, main_version))
        \cup {CatalogRow(triple, main_version, meta)}

ensure_version_catalog_entry_replace(catalog, triple, main_version) ==
    upsert_version_catalog(catalog, triple, main_version, NoMeta)

ensure_version_catalog_entry(catalog, triple, main_version) ==
    IF get_version_catalog_item(catalog, triple, main_version) # {}
    THEN catalog
    ELSE catalog \cup {CatalogRow(triple, main_version, NoMeta)}

(* Lines 2166-2174: if res.success and res.main_version *)
ensure_catalog_for_result(catalog, triple, res) ==
    IF res.success /\ res.main_version # NULL
    THEN ensure_version_catalog_entry(catalog, triple, res.main_version)
    ELSE catalog

NoPayload ==
    [changes |-> {}, current_snapshot_id |-> NoId, ack_change_event_id |-> NoId]

create_event(evs, device_id, event_type, old_state, new_state, payload) ==
    Append(evs,
           [id |-> Len(evs) + 1, device_id |-> device_id,
            event_type |-> event_type, old_state |-> old_state,
            new_state |-> new_state, changes |-> payload.changes,
            current_snapshot_id |-> payload.current_snapshot_id,
            ack_change_event_id |-> payload.ack_change_event_id])

(* update_device_state that writes nothing *)
update_device_state_skip(devs, device_id, state) == devs

(* last_state_at and updated_at, set to the clock's time, are not kept *)
update_device_state(devs, device_id, state) ==
    IF Exists(devs, device_id)
    THEN [devs EXCEPT ![device_id].last_state = state]
    ELSE devs

(* FOREIGN KEY(cluster_id) REFERENCES clusters(id), with foreign_keys ON:   *)
(* a write naming a cluster that has no row raises IntegrityError and       *)
(* changes nothing.  No statement of db.py deletes a cluster.               *)
ClusterExists(triple) == triple \in Triples

create_device(devs, triple, device_key) ==
    IF ClusterExists(triple)
    THEN Append(devs,
                [id |-> Len(devs) + 1, triple |-> triple,
                 device_key |-> device_key, last_state |-> NULL])
    ELSE devs

(* update_device as upsert_device_by_key calls it: every supplied column,   *)
(* never last_state or last_state_at                                        *)
update_device(devs, device_id, triple) ==
    IF ClusterExists(triple)
    THEN [devs EXCEPT ![device_id].triple = triple]
    ELSE devs

upsert_device_by_key(devs, triple, device_key) ==
    LET existing == { d \in Rows(devs) : d.device_key = device_key } IN
    IF ~ClusterExists(triple)
    THEN [devices |-> devs, id |-> NoId, action |-> "raised"]
    ELSE IF existing # {}
    THEN LET e == CHOOSE d \in existing : TRUE IN
         [devices |-> update_device(devs, e.id, triple), id |-> e.id,
          action |-> "updated"]
    ELSE [devices |-> create_device(devs, triple, device_key),
          id |-> Len(devs) + 1, action |-> "created"]

(* Database.delete_device: DELETE FROM devices, cascading to the device's   *)
(* snapshots and events (ON DELETE CASCADE).  The three tables afterwards.  *)
delete_device_only(device_id) ==
    [devices |-> [devices EXCEPT ![device_id] = GoneDevice(device_id)],
     snapshots |-> snapshots, events |-> events]

delete_device(device_id) ==
    [devices |-> [devices EXCEPT ![device_id] = GoneDevice(device_id)],
     snapshots |-> [i \in 1 .. Len(snapshots) |->
                       IF snapshots[i].device_id = device_id
                       THEN GoneSnapshot(i) ELSE snapshots[i]],
     events |-> [i \in 1 .. Len(events) |->
                    IF events[i].device_id = device_id
                    THEN GoneEvent(i) ELSE events[i]]]

(* The controlled-file rule of a triple.  server.py calls                    *)
(* db.get_controlled_file_rule; the Database class of db.py defines no such *)
(* method (db_cf_api = FALSE: the call raises AttributeError).  With        *)
(* db_cf_api the store answers as section 4.1 of the specification says.    *)
get_controlled_file_rule(triple) ==
    { r \in controlled_file_rules : r.triple = triple }

----------------------------------------------------------------------------
(* App._check_controlled_files, the differ (content capture left out: it    *)
(* does not change the change list).  The result says whether the call      *)
(* raised, the change list, and the event table after it.                   *)

_path_matches(pattern, path) == fnmatchcase(Chars(path), Chars(pattern))

_select_controlled_files(entries, patterns) ==
    { e \in entries : \E pat \in patterns : _path_matches(pat, e.path) }

_extract_reported_file_entries(files) ==
    IF files.supported THEN files.entries ELSE {}

FingerprintOf(sel, path) ==
    IF \E e \in sel : e.path = path
    THEN (CHOOSE e \in sel : e.path = path).fingerprint
    ELSE NULL

DifferResult(raised, changes, evs) ==
    [raised |-> raised, changes |-> changes, events |-> evs]

PayloadFiles(snapshot_rows) ==
    IF snapshot_rows = {} THEN NoFiles
    ELSE (CHOOSE s \in snapshot_rows : TRUE).files

ChangeList(prev_sel, curr_sel) ==
    { [path |-> p, old |-> FingerprintOf(prev_sel, p),
                   new |-> FingerprintOf(curr_sel, p)] :
        p \in { q \in { e.path : e \in prev_sel \cup curr_sel } :
                    FingerprintOf(prev_sel, q) # FingerprintOf(curr_sel, q) } }

_check_controlled_files_silent(device, res, prev, snapshot_id, evs) ==
    IF ~res.success THEN DifferResult(FALSE, {}, evs)
    ELSE IF ~db_cf_api THEN DifferResult(TRUE, {}, evs)
    ELSE
    LET rule == get_controlled_file_rule(device.triple)
        patterns == UNION { r.paths : r \in rule }
        prev_files == PayloadFiles(prev)
        curr_sel == _select_controlled_files(
                        _extract_reported_file_entries(res.files), patterns)
        prev_sel == IF prev_files.supported
                    THEN _select_controlled_files(
                             _extract_reported_file_entries(prev_files), patterns)
                    ELSE {}
    IN  IF patterns = {} \/ ~res.files.supported
           \/ (curr_sel = {} /\ prev_sel = {}) \/ ~prev_files.supported
        THEN DifferResult(FALSE, {}, evs)
        ELSE DifferResult(FALSE, ChangeList(prev_sel, curr_sel), evs)

_check_controlled_files(device, res, prev, snapshot_id, evs) ==
    IF ~res.success THEN DifferResult(FALSE, {}, evs)
    ELSE IF ~db_cf_api THEN DifferResult(TRUE, {}, evs)
    ELSE
    LET rule == get_controlled_file_rule(device.triple)
        patterns == UNION { r.paths : r \in rule }
        prev_files == PayloadFiles(prev)
        curr_sel == _select_controlled_files(
                        _extract_reported_file_entries(res.files), patterns)
        prev_sel == IF prev_files.supported
                    THEN _select_controlled_files(
                             _extract_reported_file_entries(prev_files), patterns)
                    ELSE {}
        changes == ChangeList(prev_sel, curr_sel)
    IN  IF patterns = {} THEN DifferResult(FALSE, {}, evs)
        ELSE IF ~res.files.supported THEN DifferResult(FALSE, {}, evs)
        ELSE IF curr_sel = {} /\ prev_sel = {} THEN DifferResult(FALSE, {}, evs)
        ELSE IF ~prev_files.supported THEN DifferResult(FALSE, {}, evs)
        ELSE IF changes = {} THEN DifferResult(FALSE, {}, evs)
        ELSE DifferResult(FALSE, changes,
                 create_event(evs, device.id, "controlled_files_change", NULL, NULL,
                     [changes |-> changes, current_snapshot_id |-> snapshot_id,
                      ack_change_event_id |-> NoId]))

----------------------------------------------------------------------------
(* App._compute_state_and_message: the state (the message is text only) *)

_compute_state_swapped(res, baseline, controlled_changes) ==
    IF ~res.success THEN "offline"
    ELSE IF baseline = {} THEN "no_baseline"
    ELSE IF baseline_allows(CHOOSE b \in baseline : TRUE, res.main_version)
         THEN "mismatch"
         ELSE IF controlled_changes # {} THEN "files_changed" ELSE "ok"

_compute_state_and_message(res, baseline, controlled_changes) ==
    IF ~res.success THEN "offline"
    ELSE IF baseline = {} THEN "no_baseline"
    ELSE IF baseline_allows(CHOOSE b \in baseline : TRUE, res.main_version)
         THEN IF controlled_changes # {} THEN "files_changed" ELSE "ok"
         ELSE "mismatch"

----------------------------------------------------------------------------
(* Database.list_status: the state of one device in the aggregated view *)

list_status(device_id) ==
    LET dev == devices[device_id]
        snap == get_latest_snapshot(device_id)
        baseline == get_baseline(dev.triple)
    IN  IF snap = {} THEN "never_polled"
        ELSE LET s == CHOOSE x \in snap : TRUE IN
             IF ~s.success THEN "offline"
             ELSE IF baseline = {} THEN "no_baseline"
             ELSE IF baseline_allows(CHOOSE b \in baseline : TRUE, s.main_version)
                  THEN "ok" ELSE "mismatch"


----------------------------------------------------------------------------
(* Threads running App.poll_and_record.  The device record a reconcile is   *)
(* given is a copy (list_devices of the periodic pass or of POST            *)
(* /api/v1/poll, get_device of register): its last_state is the one read    *)
(* then.  Every store call is atomic (Database._lock); the steps below are  *)
(* the places where other threads can run in between.                       *)

Workers == 1 .. MaxWorkers

NoDevice == [id |-> NoId, triple |-> NULL, last_state |-> NULL]

Idle ==
    [pc |-> "idle", device |-> NoDevice, prev |-> {}, prev_main |-> NULL,
     success |-> FALSE, main_version |-> NULL, snapshot_id |-> NoId,
     controlled_changes |-> {}, new_state |-> NULL]

DeviceCopy(d) == [id |-> d.id, triple |-> d.triple, last_state |-> d.last_state]

(* Threads are interchangeable: the lowest idle one takes the next reconcile *)
Free(w) ==
    /\ workers[w].pc = "idle"
    /\ \A x \in Workers : x < w => workers[x].pc # "idle"

(* Room for the snapshot of every reconcile that has started *)
SnapshotRoom ==
    Len(snapshots) + Cardinality({ x \in Workers : workers[x].pc = "polling" })
        < MaxSnapshots

(* Lines 2147-2150: the caller read the device row, the thread reads the    *)
(* latest successful snapshot and its main_version.                         *)
StartReconcile(w, dev) ==
    LET prev == get_latest_success_snapshot(dev.id) IN
    [Idle EXCEPT !.pc = "polling", !.device = DeviceCopy(dev), !.prev = prev,
                 !.prev_main = IF prev = {} THEN NULL
                               ELSE (CHOOSE s \in prev : TRUE).main_version]

Begin(w, device_id) ==
    /\ Free(w)
    /\ get_device(device_id) # {}
    /\ SnapshotRoom
    /\ workers' = [workers EXCEPT ![w] = StartReconcile(w, devices[device_id])]
    /\ UNCHANGED <<call, fanout, version_catalog, devices, baselines, snapshots, events, db_cf_api,
                   rule_requests, controlled_file_rules>>

(* Line 2152: poll_device raises.  poller._poll_dvp1_http calls payload.get *)
(* on the decoded body outside any try (poller.py 114): a 200 answer whose  *)
(* JSON body is not an object (a list, a number) raises AttributeError,     *)
(* which poll_and_record does not catch.  Nothing has been recorded; the    *)
(* exception ends the call and the thread is free again (the callers'       *)
(* except clauses, 2329-2333 and 3009-3013).                                *)
PollRaise(w) ==
    /\ workers[w].pc = "polling"
    /\ workers' = [workers EXCEPT ![w] = Idle]
    /\ UNCHANGED <<call, fanout, version_catalog, devices, baselines, snapshots, events, db_cf_api,
                   rule_requests, controlled_file_rules>>

(* Lines 2152-2188: poll, record_snapshot, the differ (its exceptions       *)
(* swallowed), the state function.                                          *)
PollRecord(w, res) ==
    /\ workers[w].pc = "polling"
    /\ LET me == workers[w]
           snapshot_id == Len(snapshots) + 1
           differ == _check_controlled_files(me.device, res, me.prev,
                                             snapshot_id, events)
           controlled_changes == IF differ.raised THEN {} ELSE differ.changes
           baseline == get_baseline(me.device.triple)
       IN  /\ get_device(me.device.id) # {}
           /\ Len(differ.events) <= MaxEvents
           /\ snapshots' = record_snapshot(me.device.id, res)
           /\ events' = differ.events
           /\ version_catalog' =
                  ensure_catalog_for_result(version_catalog, me.device.triple, res)
           /\ workers' = [workers EXCEPT ![w] =
                  [me EXCEPT !.pc = "computed", !.prev = {},
                             !.success = res.success,
                             !.main_version = res.main_version,
                             !.snapshot_id = snapshot_id,
                             !.controlled_changes = controlled_changes,
                             !.new_state = _compute_state_and_message(
                                               res, baseline, controlled_changes)]]
    /\ UNCHANGED <<call, fanout, devices, baselines, db_cf_api, rule_requests,
                   controlled_file_rules>>

(* Lines 2189-2190 *)
UpdateState(w) ==
    /\ workers[w].pc = "computed"
    /\ devices' = update_device_state(devices, workers[w].device.id,
                                      workers[w].new_state)
    /\ workers' = [workers EXCEPT ![w].pc = "updated"]
    /\ UNCHANGED <<call, fanout, version_catalog, baselines, snapshots, events, db_cf_api, rule_requests,
                   controlled_file_rules>>

(* Lines 2191-2210: the state_change event *)
StateChangeEvents(me, evs) ==
    IF me.device.last_state # me.new_state
    THEN create_event(evs, me.device.id, "state_change", me.device.last_state,
                      me.new_state, NoPayload)
    ELSE evs

(* Lines 2221-2258: the version event *)
VersionEvents_always_observed(me, evs) ==
    IF me.success /\ me.main_version # NULL
       /\ me.prev_main # me.main_version
    THEN create_event(evs, me.device.id, "version_observed",
                      me.prev_main, me.main_version, NoPayload)
    ELSE evs

VersionEvents(me, evs) ==
    IF me.success /\ me.main_version # NULL
       /\ me.prev_main # me.main_version
    THEN create_event(evs, me.device.id,
                      IF me.prev_main = NULL THEN "version_observed"
                                             ELSE "version_change",
                      me.prev_main, me.main_version, NoPayload)
    ELSE evs

EmitEvents(w) ==
    /\ workers[w].pc = "updated"
    /\ LET evs == VersionEvents(workers[w], StateChangeEvents(workers[w], events))
       IN  /\ Len(evs) <= MaxEvents
           /\ get_device(workers[w].device.id) # {} \/ evs = events
           /\ events' = evs
    /\ workers' = [workers EXCEPT ![w] = Idle]
    /\ UNCHANGED <<call, fanout, version_catalog, devices, baselines, snapshots, db_cf_api, rule_requests,
                   controlled_file_rules>>

----------------------------------------------------------------------------
(* Handlers of VersionManagerHandler that write the store *)

(* POST /api/v1/devices: create_device, 409 when the key exists *)
CreateDevice(triple, device_key) ==
    /\ Len(devices) < MaxDevices
    /\ get_device_by_key(device_key) = {}
    /\ devices' = create_device(devices, triple, device_key)
    /\ UNCHANGED <<call, fanout, version_catalog, baselines, snapshots, events, workers, db_cf_api,
                   rule_requests, controlled_file_rules>>

(* What discover does for one responding target, and register for a body   *)
(* without identity whose pre-poll succeeded: upsert_device_by_key, then    *)
(* record_snapshot of the probe.                                            *)
UpsertAndSnapshot(triple, device_key, res) ==
    LET up == upsert_device_by_key(devices, triple, device_key) IN
    /\ up.action # "raised"
    /\ res.success
    /\ Len(up.devices) <= MaxDevices
    /\ SnapshotRoom
    /\ devices' = up.devices
    /\ snapshots' = record_snapshot(up.id, res)
    /\ UNCHANGED <<call, fanout, version_catalog, baselines, events, workers, db_cf_api, rule_requests,
                   controlled_file_rules>>

(* POST /api/v1/discover, lines 3094-3136 *)
Discover(triple, device_key, res) == UpsertAndSnapshot(triple, device_key, res)

(* POST /api/v1/register, lines 2719-2786 (identity inferred from the probe) *)
RegisterInferred(triple, device_key, res) ==
    UpsertAndSnapshot(triple, device_key, res)

(* POST /api/v1/register with identity in the body and verify: upsert, then *)
(* poll_and_record on the handler's thread, lines 2758-2790                 *)
RegisterVerify(w, triple, device_key) ==
    LET up == upsert_device_by_key(devices, triple, device_key) IN
    /\ up.action # "raised"
    /\ Free(w)
    /\ Len(up.devices) <= MaxDevices
    /\ SnapshotRoom
    /\ devices' = up.devices
    /\ workers' = [workers EXCEPT ![w] = StartReconcile(w, up.devices[up.id])]
    /\ UNCHANGED <<call, fanout, version_catalog, baselines, snapshots, events, db_cf_api, rule_requests,
                   controlled_file_rules>>

(* POST /api/v1/baselines: Database.upsert_baseline *)
UpsertBaseline(triple, b) ==
    /\ baselines' = { x \in baselines : x.triple # triple } \cup
                    { [triple |-> triple,
                       expected_main_version |-> b.expected_main_version,
                       allowed_main_globs |-> b.allowed_main_globs] }
    /\ baselines' # baselines
    /\ UNCHANGED <<call, fanout, version_catalog, devices, snapshots, events, workers, db_cf_api,
                   rule_requests, controlled_file_rules>>

(* DELETE /api/v1/baselines/{id}: Database.delete_baseline *)
DeleteBaseline(triple) ==
    /\ get_baseline(triple) # {}
    /\ baselines' = { x \in baselines : x.triple # triple }
    /\ UNCHANGED <<call, fanout, version_catalog, devices, snapshots, events, workers, db_cf_api,
                   rule_requests, controlled_file_rules>>

(* POST /api/v1/controlled-file-rules, lines 2931-2963: the handler calls   *)
(* db.upsert_controlled_file_rule, which db.py does not define: without     *)
(* the method the request fails and stores nothing.                         *)
UpsertRule(triple, r) ==
    LET row == [triple |-> triple, paths |-> r.paths, mode |-> r.mode,
                max_bytes |-> r.max_bytes]
    IN  /\ rule_requests' = { x \in rule_requests : x.triple # triple } \cup {row}
        /\ controlled_file_rules' =
               IF db_cf_api
               THEN { x \in controlled_file_rules : x.triple # triple } \cup {row}
               ELSE controlled_file_rules
        /\ rule_requests' # rule_requests
        /\ UNCHANGED <<call, fanout, version_catalog, devices, baselines, snapshots, events, workers,
                       db_cf_api>>

(* POST /api/v1/devices/{id}/ack-controlled-files, lines 2858-2899 *)
LatestChangeId_unacked(device_id) ==
    LET rows == Latest({ e \in Rows(events) :
                            /\ e.device_id = device_id
                            /\ e.event_type = "controlled_files_change"
                            /\ \A a \in Rows(events) :
                                   a.event_type = "controlled_files_ack"
                                       => a.ack_change_event_id # e.id })
    IN  IF rows = {} THEN NoId ELSE (CHOOSE r \in rows : TRUE).id

LatestChangeId(device_id) ==
    LET rows == Latest({ e \in Rows(events) :
                            /\ e.device_id = device_id
                            /\ e.event_type = "controlled_files_change" })
    IN  IF rows = {} THEN NoId ELSE (CHOOSE r \in rows : TRUE).id

Ack(device_id) ==
    /\ get_device(device_id) # {}
    /\ Len(events) < MaxEvents
    /\ events' = create_event(events, device_id, "controlled_files_ack", NULL, NULL,
                     [changes |-> {}, current_snapshot_id |-> NoId,
                      ack_change_event_id |-> LatestChangeId(device_id)])
    /\ devices' = update_device_state(devices, device_id, "ok")
    /\ UNCHANGED <<call, fanout, version_catalog, baselines, snapshots, workers, db_cf_api, rule_requests,
                   controlled_file_rules>>

(* discover or register naming a cluster that has no row:                  *)
(* upsert_device_by_key raises IntegrityError, nothing is stored            *)
UpsertRejected(triple, device_key) ==
    /\ upsert_device_by_key(devices, triple, device_key).action = "raised"
    /\ UNCHANGED <<call, fanout, version_catalog, devices, baselines, snapshots, events, workers,
                   db_cf_api, rule_requests, controlled_file_rules>>

----------------------------------------------------------------------------
(* Deleting a device, and what a reconcile in flight does then *)

(* DELETE /api/v1/devices/{id}, lines 3243-3253 *)
DeleteDevice(device_id) ==
    /\ get_device(device_id) # {}
    /\ LET after == delete_device(device_id)
       IN  /\ devices' = after.devices
           /\ snapshots' = after.snapshots
           /\ events' = after.events
    /\ UNCHANGED <<call, fanout, version_catalog, baselines, workers, db_cf_api, rule_requests,
                   controlled_file_rules>>

(* Lines 2155-2165 for a device deleted since the caller read it: the       *)
(* INSERT of record_snapshot raises IntegrityError (foreign key), which     *)
(* poll_and_record does not catch.                                          *)
RecordRaise(w) ==
    /\ workers[w].pc = "polling"
    /\ get_device(workers[w].device.id) = {}
    /\ workers' = [workers EXCEPT ![w] = Idle]
    /\ UNCHANGED <<call, fanout, version_catalog, devices, baselines, snapshots, events, db_cf_api,
                   rule_requests, controlled_file_rules>>

(* Lines 2191-2258 for a device deleted after the snapshot: the first       *)
(* create_event raises IntegrityError; no event is written.                 *)
EmitRaise(w) ==
    /\ workers[w].pc = "updated"
    /\ get_device(workers[w].device.id) = {}
    /\ VersionEvents(workers[w], StateChangeEvents(workers[w], events)) # events
    /\ workers' = [workers EXCEPT ![w] = Idle]
    /\ UNCHANGED <<call, fanout, version_catalog, devices, baselines, snapshots, events, db_cf_api,
                   rule_requests, controlled_file_rules>>

----------------------------------------------------------------------------
InitStore ==
    /\ devices = <<>>
    /\ baselines = {}
    /\ snapshots = <<>>
    /\ events = <<>>
    /\ workers = [w \in Workers |-> Idle]
    /\ rule_requests = {}
    /\ controlled_file_rules = {}
    /\ version_catalog = {}

NoCall == [fn |-> "none"]

NoFanout == [stop |-> FALSE]

(* The program of src/: the Database class has no controlled-file methods *)
Init == InitStore /\ db_cf_api = FALSE /\ call = NoCall /\ fanout = NoFanout

(* The same program over a store that has them *)
InitCF == InitStore /\ db_cf_api = TRUE /\ call = NoCall /\ fanout = NoFanout

Next ==
    \/ \E w \in Workers, d \in DeviceIds : Begin(w, d)
    \/ \E w \in Workers, res \in PollResults : PollRecord(w, res)
    \/ \E w \in Workers : PollRaise(w)
    \/ \E w \in Workers : UpdateState(w)
    \/ \E w \in Workers : EmitEvents(w)
    \/ \E t \in Triples \cup NoClusterTriples, k \in Keys : CreateDevice(t, k)
    \/ \E t \in NoClusterTriples, k \in Keys : UpsertRejected(t, k)
    \/ \E t \in Triples, k \in Keys, res \in PollResults : Discover(t, k, res)
    \/ \E t \in Triples, k \in Keys, res \in PollResults : RegisterInferred(t, k, res)
    \/ \E w \in Workers, t \in Triples, k \in Keys : RegisterVerify(w, t, k)
    \/ \E t \in Triples, b \in BaselineChoices : UpsertBaseline(t, b)
    \/ \E t \in Triples : DeleteBaseline(t)
    \/ \E t \in Triples, r \in RuleChoices : UpsertRule(t, r)
    \/ \E d \in DeviceIds : Ack(d)

Spec == Init /\ [][Next]_vars

(* The same program with devices being deleted *)
NextDel ==
    \/ Next
    \/ \E d \in DeviceIds : DeleteDevice(d)
    \/ \E w \in Workers : RecordRaise(w)
    \/ \E w \in Workers : EmitRaise(w)

SpecDel == Init /\ [][NextDel]_vars

SpecCF == InitCF /\ [][Next]_vars

----------------------------------------------------------------------------
(* App._compute_state_and_message applied on its own to every result,       *)
(* baseline and change list below.                                          *)

StateBaselines ==
    { {} } \cup
    { {[triple |-> "t1", expected_main_version |-> v, allowed_main_globs |-> g]} :
          v \in Versions, g \in {{}, {"1.*"}} }

StateChanges ==
    { {},
      {[path |-> "a.yml", old |-> "fa", new |-> "fb"]},
      {[path |-> "a.yml", old |-> NULL, new |-> "fa"]} }

InitState ==
    /\ InitStore
    /\ db_cf_api = FALSE
    /\ fanout = NoFanout
    /\ call \in { [fn |-> "arguments", res |-> r, baseline |-> b,
                    controlled_changes |-> c, state |-> NULL] :
                      r \in PollResults, b \in StateBaselines, c \in StateChanges }

ComputeState ==
    /\ call.fn = "arguments"
    /\ call' = [call EXCEPT !.fn = "_compute_state_and_message",
                            !.state = _compute_state_and_message(
                                          call.res, call.baseline,
                                          call.controlled_changes)]
    /\ UNCHANGED <<store_vars, fanout>>

NextState == ComputeState

SpecState == InitState /\ [][NextState]_vars

----------------------------------------------------------------------------
(* The scheduler loop of App.start_scheduler and the handler of             *)
(* POST /api/v1/poll: each pass lists the enabled devices and hands one     *)
(* poll_and_record per device to a ThreadPoolExecutor of its own. The       *)
(* reconcile is taken here by its outcome: a summary with success true or   *)
(* false, or an exception.                                                  *)

MaxFanoutDevices == 3

(* App.poll_workers, the max_workers of every executor *)
poll_workers == 2

FanoutDevices == 1 .. MaxFanoutDevices

Passes == {"scheduler", "poll"}

Outcomes == {"ok", "failed", "raised"}

(* The device_ids of a request body: absent (or not a list), or a list *)
DeviceIdsChoices ==
    {[is_list |-> FALSE, ids |-> {}]} \cup
    {[is_list |-> TRUE, ids |-> s] : s \in SUBSET FanoutDevices}

NoPass ==
    [pc |-> "idle", selected |-> {}, queue |-> {}, running |-> {},
     done |-> {}, raised |-> {}, results |-> {},
     attempts |-> [d \in FanoutDevices |-> 0]]

(* db.list_devices(enabled_only=True) *)
list_devices(enabled) == enabled

(* The devices a poll request selects, lines 2999-3002 *)
SelectDevices_listed(enabled, device_ids) ==
    IF device_ids.is_list THEN device_ids.ids ELSE enabled

SelectDevices(enabled, device_ids) ==
    IF device_ids.is_list
    THEN {d \in list_devices(enabled) : d \in device_ids.ids}
    ELSE list_devices(enabled)

(* A pass that has submitted one poll_and_record per device *)
Submitted(pass, devs) ==
    [pass EXCEPT !.pc = "fanout", !.selected = devs, !.queue = devs,
                 !.running = {}, !.done = {}, !.raised = {}, !.results = {},
                 !.attempts = [d \in FanoutDevices |-> 0]]

(* The except branch around f.result(): the pass goes on *)
OnException_abort(pass) == [pass EXCEPT !.queue = {}]

OnException(pass) == pass

(* The while condition of the loop *)
LoopCondition_always(stop) == TRUE

LoopCondition(stop) == ~stop

(* The number of reconciles in flight, over the executors of all passes *)
InFlight ==
    Cardinality(fanout.passes["scheduler"].running)
        + Cardinality(fanout.passes["poll"].running)

(* stop_scheduler: sets the stop event *)
StopScheduler ==
    /\ ~fanout.stop
    /\ fanout' = [fanout EXCEPT !.stop = TRUE]
    /\ UNCHANGED <<store_vars, call>>

(* while not self._stop_event.is_set() *)
LoopCheck ==
    /\ fanout.passes["scheduler"].pc = "check"
    /\ fanout' = [fanout EXCEPT !.passes["scheduler"].pc =
                      IF LoopCondition(fanout.stop) THEN "list" ELSE "exited"]
    /\ UNCHANGED <<store_vars, call>>

(* The pass of the loop begins: the devices are listed and submitted *)
ListDevices ==
    /\ fanout.passes["scheduler"].pc = "list"
    /\ fanout' = [fanout EXCEPT !.passes["scheduler"] =
                      Submitted(@, list_devices(fanout.enabled))]
    /\ UNCHANGED <<store_vars, call>>

(* list_devices or the executor's constructor raises: the try has no except *)
(* clause, so the finally clause waits and the exception leaves loop()      *)
ListRaise ==
    /\ fanout.passes["scheduler"].pc = "list"
    /\ fanout' = [fanout EXCEPT !.passes["scheduler"].pc = "unwinding"]
    /\ UNCHANGED <<store_vars, call>>

(* A thread of the pass's executor takes the next submitted reconcile *)
StartTask(p, d) ==
    LET pass == fanout.passes[p] IN
    /\ pass.pc = "fanout"
    /\ d \in pass.queue
    /\ Cardinality(pass.running) < poll_workers
    /\ fanout' = [fanout EXCEPT !.passes[p] =
                      [pass EXCEPT !.queue = @ \ {d},
                                   !.running = @ \cup {d},
                                   !.attempts[d] = @ + 1]]
    /\ UNCHANGED <<store_vars, call>>

(* The entry the poll handler appends for a finished future *)
ResultEntry(d, o) ==
    [device_id |-> d, success |-> (o = "ok"),
     error |-> IF o = "raised" THEN "poll_exception" ELSE NULL]

(* The reconcile of device d ends with outcome o and as_completed yields it *)
FinishTask(p, d, o) ==
    LET pass == fanout.passes[p]
        seen == [pass EXCEPT !.running = @ \ {d},
                             !.done = @ \cup {d},
                             !.raised = IF o = "raised" THEN @ \cup {d} ELSE @,
                             !.results = IF p = "poll"
                                         THEN @ \cup {ResultEntry(d, o)}
                                         ELSE @]
    IN
    /\ pass.pc = "fanout"
    /\ d \in pass.running
    /\ fanout' = [fanout EXCEPT !.passes[p] =
                      IF o = "raised" THEN OnException(seen) ELSE seen]
    /\ UNCHANGED <<store_vars, call>>

(* The executor's with block ends: every submitted future is finished *)
PassEnd(p) ==
    LET pass == fanout.passes[p] IN
    /\ pass.pc = "fanout"
    /\ pass.queue = {}
    /\ pass.running = {}
    /\ fanout' =
         IF p = "poll"
         THEN [fanout EXCEPT
                  !.passes[p].pc = "responded",
                  !.response =
                      LET ok == Cardinality({r \in pass.results : r.success})
                      IN [ok |-> ok,
                          fail |-> Cardinality(pass.results) - ok,
                          results |-> pass.results]]
         ELSE [fanout EXCEPT !.passes[p].pc = "wait"]
    /\ UNCHANGED <<store_vars, call>>

(* finally: self._stop_event.wait(self.poll_interval_s) returns *)
Wait ==
    /\ fanout.passes["scheduler"].pc \in {"wait", "unwinding"}
    /\ fanout' = [fanout EXCEPT !.passes["scheduler"] =
                      IF @.pc = "wait"
                      THEN [NoPass EXCEPT !.pc = "check"]
                      ELSE [NoPass EXCEPT !.pc = "dead"]]
    /\ UNCHANGED <<store_vars, call>>

(* POST /api/v1/poll with the given device_ids *)
PollRequest(device_ids) ==
    /\ fanout.passes["poll"].pc \in {"idle", "responded"}
    /\ fanout' = [fanout EXCEPT
                     !.device_ids = device_ids,
                     !.response = [ok |-> 0, fail |-> 0, results |-> {}],
                     !.passes["poll"] =
                         Submitted(@, SelectDevices(fanout.enabled, device_ids))]
    /\ UNCHANGED <<store_vars, call>>

InitFanout ==
    /\ InitStore
    /\ db_cf_api = FALSE
    /\ call = NoCall
    /\ fanout \in
         {[stop |-> FALSE, enabled |-> en,
           device_ids |-> [is_list |-> FALSE, ids |-> {}],
           response |-> [ok |-> 0, fail |-> 0, results |-> {}],
           passes |-> [p \in Passes |->
                          IF p = "scheduler"
                          THEN [NoPass EXCEPT !.pc = "check"]
                          ELSE NoPass]] : en \in SUBSET FanoutDevices}

NextFanout ==
    \/ StopScheduler
    \/ LoopCheck
    \/ ListDevices
    \/ ListRaise
    \/ \E p \in Passes, d \in FanoutDevices : StartTask(p, d)
    \/ \E p \in Passes, d \in FanoutDevices, o \in Outcomes : FinishTask(p, d, o)
    \/ \E p \in Passes : PassEnd(p)
    \/ Wait
    \/ \E ids \in DeviceIdsChoices : PollRequest(ids)

SpecFanout == InitFanout /\ [][NextFanout]_vars

(* The threads are scheduled: the loop thread takes its next step, a        *)
(* submitted reconcile is started and a started one ends (every probe has a *)
(* timeout)                                                                 *)
FairFanout ==
    /\ WF_vars(LoopCheck)
    /\ WF_vars(ListDevices \/ ListRaise)
    /\ WF_vars(Wait)
    /\ \A p \in Passes : WF_vars(PassEnd(p))
    /\ \A p \in Passes, d \in FanoutDevices :
           /\ WF_vars(StartTask(p, d))
           /\ WF_vars(\E o \in Outcomes : FinishTask(p, d, o))

SpecFanoutFair == InitFanout /\ [][NextFanout]_vars /\ FairFanout

----------------------------------------------------------------------------
(* Database.upsert_device_by_key applied on its own to rows of the devices  *)
(* table with every column the caller supplies.                             *)

UpsertKeys == {"k1", "k2"}

BaseFields ==
    [cluster_id |-> 1, vendor |-> "V", model |-> "M", line_no |-> "L1",
     ip |-> "10.0.0.1", port |-> 80, protocol |-> "dvp1-http",
     path |-> "/version", auth |-> [type |-> "none", token |-> NULL],
     enabled |-> TRUE]

(* The keyword arguments of upsert_device_by_key; line_no may be None *)
FieldChoices ==
    { BaseFields,
      [BaseFields EXCEPT !.line_no = NULL],
      [BaseFields EXCEPT !.line_no = "L2", !.enabled = FALSE],
      [cluster_id |-> 2, vendor |-> "W", model |-> "N", line_no |-> NULL,
       ip |-> "10.0.0.2", port |-> 8080, protocol |-> "dvp1-tcp",
       path |-> "/v", auth |-> [type |-> "bearer", token |-> "tok"],
       enabled |-> FALSE] }

(* The row INSERT INTO devices writes *)
DeviceRow(id, device_key, f) ==
    [id |-> id, device_key |-> device_key, cluster_id |-> f.cluster_id,
     vendor |-> f.vendor, model |-> f.model, line_no |-> f.line_no,
     ip |-> f.ip, port |-> f.port, protocol |-> f.protocol, path |-> f.path,
     auth_type |-> f.auth.type, auth_token |-> f.auth.token,
     enabled |-> IF f.enabled THEN 1 ELSE 0]

(* SELECT ... FROM devices WHERE device_key = ? *)
select_device_by_key(table, device_key) ==
    {r \in table : r.device_key = device_key}

(* update_device: a column is assigned when its argument is not None; the   *)
(* upsert passes integers for cluster_id and port, an auth and an enabled   *)
assigned(f) ==
    {c \in {"vendor", "model", "line_no", "ip", "protocol", "path"} : f[c] # NULL}
        \cup {"cluster_id", "port", "auth", "enabled"}

update_device_row(row, f) ==
    LET set == assigned(f)
        new == DeviceRow(row.id, row.device_key, f)
    IN [c \in DOMAIN row |->
           IF c \in set \/ (c \in {"auth_type", "auth_token"} /\ "auth" \in set)
           THEN new[c]
           ELSE row[c]]

(* upsert_device_by_key: the table after the call and the pair it returns *)
upsert_device_row(table, next_id, device_key, f) ==
    LET existing == select_device_by_key(table, device_key) IN
    IF existing # {}
    THEN LET row == CHOOSE r \in existing : TRUE IN
         [table |-> (table \ {row}) \cup {update_device_row(row, f)},
          next_id |-> next_id,
          result |-> [id |-> row.id, action |-> "updated"]]
    ELSE [table |-> table \cup {DeviceRow(next_id, device_key, f)},
          next_id |-> next_id + 1,
          result |-> [id |-> next_id, action |-> "created"]]

InitUpsert ==
    /\ InitStore
    /\ db_cf_api = FALSE
    /\ fanout = NoFanout
    /\ call = [fn |-> "none", table |-> {}, next_id |-> 1,
               device_key |-> NULL, fields |-> BaseFields,
               result |-> [id |-> NoId, action |-> NULL]]

Upsert(device_key, f) ==
    LET up == upsert_device_row(call.table, call.next_id, device_key, f) IN
    /\ call' = [fn |-> "upsert_device_by_key", table |-> up.table,
                next_id |-> up.next_id, device_key |-> device_key,
                fields |-> f, result |-> up.result]
    /\ UNCHANGED <<store_vars, fanout>>

NextUpsert == \E k \in UpsertKeys, f \in FieldChoices : Upsert(k, f)

SpecUpsert == InitUpsert /\ [][NextUpsert]_vars

----------------------------------------------------------------------------
(* poller.poll_device applied on its own: the device's protocol tag and     *)
(* what the device's endpoint does with the one GET.                        *)

DeviceProtocols == {"dvp1-http", "modbus"}

(* urlopen returns a response, or raises HTTPError, URLError or another     *)
(* exception (a timeout among them)                                         *)
Transports == {"response", "http_error", "url_error", "exception"}

HttpStatuses == {200, 503}

(* versions.main of the payload: absent, or a string *)
MainChoices == {NULL, "", "1.0", " 1.0", "1.1"}

(* str.strip over the strings of MainChoices *)
strip(s) ==
    CASE s = " 1.0" -> "1.0"
      [] OTHER      -> s

(* The body: not JSON, JSON that is not an object, or an object *)
Bodies ==
    { [kind |-> k, protocol |-> NULL, protocol_version |-> 0, main |-> NULL] :
          k \in {"text", "array"} }
    \cup
    { [kind |-> "object", protocol |-> p, protocol_version |-> pv, main |-> m] :
          p \in {"dvp", "xyz"}, pv \in {1, 2}, m \in MainChoices }

Responses ==
    [transport : Transports, status : HttpStatuses, body : Bodies]

NoStatus == 0

(* A PollResult with success=False *)
Failed(http_status, latency_ms, error, protocol_version, payload) ==
    [raised |-> FALSE, success |-> FALSE, http_status |-> http_status,
     latency_ms |-> latency_ms, error |-> error,
     protocol_version |-> protocol_version, main_version |-> NULL,
     payload |-> payload]

(* The call does not return: payload.get on a list, a string or a number *)
RaisedAttributeError ==
    [raised |-> TRUE, success |-> FALSE, http_status |-> NoStatus,
     latency_ms |-> NULL, error |-> "AttributeError",
     protocol_version |-> 0, main_version |-> NULL, payload |-> {}]

_poll_dvp1_http(resp) ==
    IF resp.transport = "http_error"
    THEN Failed(resp.status, "measured", "http_error", 0, {})
    ELSE IF resp.transport = "url_error"
    THEN Failed(NoStatus, "measured", "url_error", 0, {})
    ELSE IF resp.transport = "exception"
    THEN Failed(NoStatus, "measured", "exception", 0, {})
    ELSE IF resp.status # 200
    THEN Failed(resp.status, "measured", "http_status", 0, {})
    ELSE IF resp.body.kind = "text"
    THEN Failed(resp.status, "measured", "invalid_json", 0, {})
    ELSE IF resp.body.kind # "object"
    THEN RaisedAttributeError
    ELSE IF resp.body.protocol # "dvp" \/ resp.body.protocol_version # 1
    THEN Failed(resp.status, "measured", "unsupported_protocol",
                resp.body.protocol_version, {resp.body})
    ELSE LET mv == resp.body.main
             main_version == IF mv # NULL /\ strip(mv) # "" THEN strip(mv) ELSE NULL
         IN IF main_version = NULL
            THEN Failed(resp.status, "measured", "missing_versions.main", 1,
                        {resp.body})
            ELSE [raised |-> FALSE, success |-> TRUE, http_status |-> resp.status,
                  latency_ms |-> "measured", error |-> NULL,
                  protocol_version |-> 1, main_version |-> main_version,
                  payload |-> {resp.body}]

poll_device(protocol, resp) ==
    IF protocol = "dvp1-http"
    THEN _poll_dvp1_http(resp)
    ELSE Failed(NoStatus, NULL, "unsupported_device_protocol", 0, {})

InitPoll ==
    /\ InitStore
    /\ db_cf_api = FALSE
    /\ fanout = NoFanout
    /\ call \in {[fn |-> "arguments", protocol |-> p, resp |-> r,
                  res |-> RaisedAttributeError] :
                     p \in DeviceProtocols, r \in Responses}

PollDevice ==
    /\ call.fn = "arguments"
    /\ call' = [call EXCEPT !.fn = "poll_device",
                            !.res = poll_device(call.protocol, call.resp)]
    /\ UNCHANGED <<store_vars, fanout>>

NextPoll == PollDevice

SpecPoll == InitPoll /\ [][NextPoll]_vars

----------------------------------------------------------------------------
(* The version catalog step of poll_and_record (lines 2166-2174) and        *)
(* POST /api/v1/version-catalog applied on their own to a catalog whose     *)
(* rows carry their metadata.                                               *)

MetaChoices ==
    { NoMeta,
      [changelog_md |-> "notes", released_at |-> "2024-01-01",
       risk_level |-> "low", checksum |-> "abc"] }

InitCatalog ==
    /\ InitStore
    /\ db_cf_api = FALSE
    /\ fanout = NoFanout
    /\ call = [fn |-> "none", catalog |-> {}, protocol |-> "dvp1-http",
               resp |-> [transport |-> "url_error", status |-> 200,
                         body |-> [kind |-> "text", protocol |-> NULL,
                                   protocol_version |-> 0, main |-> NULL]],
               res |-> RaisedAttributeError]

UpsertCatalog(triple, main_version, meta) ==
    /\ call' = [call EXCEPT
                   !.fn = "upsert_version_catalog",
                   !.catalog = upsert_version_catalog(call.catalog, triple,
                                                      main_version, meta)]
    /\ UNCHANGED <<store_vars, fanout>>

(* poll_and_record as far as the catalog goes: the poll, then the step *)
ReconcileCatalog(triple, protocol, resp) ==
    LET res == poll_device(protocol, resp) IN
    /\ call' = [fn |-> "poll_and_record", protocol |-> protocol, resp |-> resp,
                res |-> res,
                catalog |-> IF res.raised
                            THEN call.catalog
                            ELSE ensure_catalog_for_result(call.catalog, triple, res)]
    /\ UNCHANGED <<store_vars, fanout>>

NextCatalog ==
    \/ \E t \in Triples, v \in Versions, m \in MetaChoices : UpsertCatalog(t, v, m)
    \/ \E t \in Triples, p \in DeviceProtocols, r \in Responses :
           ReconcileCatalog(t, p, r)

SpecCatalog == InitCatalog /\ [][NextCatalog]_vars

----------------------------------------------------------------------------
(* The content capture of the differ (App._ensure_observation_for_entry as  *)
(* _check_controlled_files calls it) applied on its own to the successive   *)
(* successful reconciles of one device whose triple has a rule matching     *)
(* every reported path.  db.py has no observation table and no              *)
(* get/record_controlled_file_observation: the two are taken from sections  *)
(* 3 and 4.1 of the specification (unique on (device, path, fingerprint),   *)
(* written once).                                                           *)

MaxObsSnapshots == 3

ObsModes == {"auto", "inline", "fetch"}

MaxBytesChoices == {0, 8192}

(* The files array of a payload as _extract_reported_file_entries returns   *)
(* it: no array, or entries with a fingerprint and, optionally, content     *)
ReportedChoices ==
    {[supported |-> FALSE, entries |-> {}], [supported |-> TRUE, entries |-> {}]}
    \cup
    { [supported |-> TRUE,
       entries |-> {[path |-> p, fingerprint |-> f, content_b64 |-> c]}] :
          p \in Paths, f \in Fingerprints, c \in {NULL, "Yw=="} }

get_controlled_file_observation(obs, device_id, path, fingerprint) ==
    {o \in obs : o.device_id = device_id /\ o.path = path
                    /\ o.fingerprint = fingerprint}

record_controlled_file_observation(obs, row) ==
    IF get_controlled_file_observation(obs, row.device_id, row.path,
                                       row.fingerprint) # {}
    THEN obs
    ELSE obs \cup {row}

(* The observations after the call and the number of GETs it sent to the    *)
(* device's file endpoint; fetched says whether that endpoint answers with  *)
(* content                                                                  *)
_ensure_observation_uncached(obs, device_id, entry, snapshot_id, mode, max_bytes, fetched) ==
    [observations |->
         (obs \ get_controlled_file_observation(obs, device_id, entry.path,
                                                entry.fingerprint))
             \cup {[device_id |-> device_id, path |-> entry.path,
                    fingerprint |-> entry.fingerprint,
                    snapshot_id |-> snapshot_id, source |-> "inline"]},
     fetches |-> 0]

_ensure_observation_for_entry(obs, device_id, entry, snapshot_id, mode, max_bytes, fetched) ==
    IF max_bytes <= 0 THEN [observations |-> obs, fetches |-> 0]
    ELSE IF get_controlled_file_observation(obs, device_id, entry.path,
                                            entry.fingerprint) # {}
    THEN [observations |-> obs, fetches |-> 0]
    ELSE
    LET inline == IF mode # "fetch" /\ entry.content_b64 # NULL
                  THEN entry.content_b64 ELSE NULL
        fetch == inline = NULL /\ mode \in {"auto", "fetch"}
        content_b64 == IF fetch /\ fetched THEN "Yw==" ELSE inline
        source == IF fetch /\ fetched THEN "fetch" ELSE "inline"
    IN [observations |->
            IF content_b64 = NULL THEN obs
            ELSE record_controlled_file_observation(obs,
                     [device_id |-> device_id, path |-> entry.path,
                      fingerprint |-> entry.fingerprint,
                      snapshot_id |-> snapshot_id, source |-> source]),
        fetches |-> IF fetch THEN 1 ELSE 0]

Fingerprinted(entries) ==
    {[path |-> e.path, fingerprint |-> e.fingerprint] : e \in entries}

(* _check_controlled_files, lines 2010-2071, for a payload reporting at     *)
(* most one controlled file: the baseline loop, then the new content of a   *)
(* change                                                                   *)
capture_observations(obs, device_id, prev, curr, snapshot_id, mode, max_bytes, fetched) ==
    IF ~curr.supported \/ (curr.entries = {} /\ (~prev.supported \/ prev.entries = {}))
    THEN [observations |-> obs, fetches |-> 0]
    ELSE IF curr.entries = {} THEN [observations |-> obs, fetches |-> 0]
    ELSE
    LET entry == CHOOSE e \in curr.entries : TRUE
        first == _ensure_observation_for_entry(obs, device_id, entry,
                     snapshot_id, mode, max_bytes, fetched)
        changed == prev.supported
                       /\ Fingerprinted(prev.entries) # Fingerprinted(curr.entries)
        second == _ensure_observation_for_entry(first.observations, device_id,
                      entry, snapshot_id, mode, max_bytes, fetched)
    IN IF changed
       THEN [observations |-> second.observations,
             fetches |-> first.fetches + second.fetches]
       ELSE first

InitObs ==
    /\ InitStore
    /\ db_cf_api = TRUE
    /\ fanout = NoFanout
    /\ call \in {[fn |-> "none", mode |-> m, max_bytes |-> b,
                  observations |-> {}, payloads |-> <<>>,
                  fetches |-> 0] : m \in ObsModes, b \in MaxBytesChoices}

(* One successful reconcile of device 1 as far as the capture goes *)
CheckFiles(curr, fetched) ==
    LET snapshot_id == Len(call.payloads) + 1
        prev == IF call.payloads = <<>>
                THEN [supported |-> FALSE, entries |-> {}]
                ELSE call.payloads[Len(call.payloads)]
        out == capture_observations(call.observations, 1, prev, curr,
                                    snapshot_id, call.mode, call.max_bytes, fetched)
    IN
    /\ Len(call.payloads) < MaxObsSnapshots
    /\ call' = [call EXCEPT !.fn = "_check_controlled_files",
                            !.observations = out.observations,
                            !.payloads = Append(@, curr),
                            !.fetches = out.fetches]
    /\ UNCHANGED <<store_vars, fanout>>

NextObs == \E curr \in ReportedChoices, fetched \in BOOLEAN : CheckFiles(curr, fetched)

SpecObs == InitObs /\ [][NextObs]_vars

----------------------------------------------------------------------------
(* Authentication of the HTTP handlers: _auth, _require_login,              *)
(* _require_admin, the gate of POST /api/v1/register, login, logout, and    *)
(* the sessions table with its expiry.  Time is a counter; a handler past   *)
(* its gate is taken by whether it goes on to its body.                     *)

MaxTime == 2
MaxSessions == 2

(* ttl_seconds of create_session, in ticks *)
SessionTtl == 1

Roles == {"admin", "viewer"}

(* Session tokens are secrets.token_urlsafe(32): numbered, never reissued *)
SessionTokens == 1 .. MaxSessions
NoToken == 0

(* X-Api-Token and registration token values a request can carry *)
HeaderChoices == {NULL, "right", "wrong"}

(* Endpoint classes: reads behind _require_login, mutations and             *)
(* poll/discover behind _require_admin, and register                        *)
EndpointClasses == {"read", "admin", "register"}

(* A registration token is only read by register *)
Requests ==
    {r \in [endpoint : EndpointClasses, api_token : HeaderChoices,
            cookie : {NoToken} \cup SessionTokens,
            registration_token : HeaderChoices] :
        r.endpoint # "register" => r.registration_token = NULL}

NoUser == [role |-> NULL, via |-> NULL]

create_session(sessions, token, role, now) ==
    sessions \cup {[token |-> token, role |-> role, expires_at |-> now + SessionTtl]}

delete_session(sessions, token) == {s \in sessions : s.token # token}

(* get_session_user: the user of the token and the sessions afterwards *)
get_session_user_no_expiry(sessions, token, now) ==
    LET rows == {s \in sessions : s.token = token} IN
    IF rows = {} THEN [user |-> NoUser, sessions |-> sessions]
    ELSE [user |-> [role |-> (CHOOSE s \in rows : TRUE).role, via |-> "session"],
          sessions |-> sessions]

get_session_user(sessions, token, now) ==
    LET rows == {s \in sessions : s.token = token} IN
    IF rows = {} THEN [user |-> NoUser, sessions |-> sessions]
    ELSE LET r == CHOOSE s \in rows : TRUE IN
         IF now >= r.expires_at
         THEN [user |-> NoUser, sessions |-> delete_session(sessions, token)]
         ELSE [user |-> [role |-> r.role, via |-> "session"],
               sessions |-> sessions]

(* _auth: the api token first, then the vm_session cookie *)
_auth(cfg, sessions, req, now) ==
    IF cfg.api_token /\ req.api_token = "right"
    THEN [user |-> [role |-> "admin", via |-> "api-token"], sessions |-> sessions]
    ELSE IF req.cookie = NoToken
    THEN [user |-> NoUser, sessions |-> sessions]
    ELSE get_session_user(sessions, req.cookie, now)

Answer(status, body, a) ==
    [status |-> status, body |-> body, user |-> a.user, sessions |-> a.sessions]

_require_login(cfg, sessions, req, now) ==
    LET a == _auth(cfg, sessions, req, now) IN
    IF a.user = NoUser THEN Answer(401, FALSE, a) ELSE Answer(200, TRUE, a)

_require_login_only(cfg, sessions, req, now) ==
    _require_login(cfg, sessions, req, now)

_require_admin(cfg, sessions, req, now) ==
    LET l == _require_login(cfg, sessions, req, now) IN
    IF ~l.body THEN l
    ELSE IF l.user.role # "admin" THEN [l EXCEPT !.status = 403, !.body = FALSE]
    ELSE l

(* The gate of POST /api/v1/register, lines 2648-2659 *)
register_gate(cfg, sessions, req, now) ==
    IF cfg.registration_token
    THEN IF req.registration_token = "right"
         THEN Answer(200, TRUE, [user |-> NoUser, sessions |-> sessions])
         ELSE LET a == _auth(cfg, sessions, req, now) IN
              IF a.user = NoUser \/ a.user.role # "admin"
              THEN Answer(401, FALSE, a)
              ELSE Answer(200, TRUE, a)
    ELSE _require_admin(cfg, sessions, req, now)

Gate(cfg, sessions, req, now) ==
    CASE req.endpoint = "read"     -> _require_login(cfg, sessions, req, now)
      [] req.endpoint = "admin"    -> _require_admin(cfg, sessions, req, now)
      [] req.endpoint = "register" -> register_gate(cfg, sessions, req, now)

NoRequest ==
    [endpoint |-> "read", api_token |-> NULL, cookie |-> NoToken,
     registration_token |-> NULL]

InitAuth ==
    /\ InitStore
    /\ db_cf_api = FALSE
    /\ fanout = NoFanout
    /\ call \in {[fn |-> "none",
                  cfg |-> [api_token |-> a, registration_token |-> r],
                  now |-> 0, sessions |-> {}, issued |-> 0, revoked |-> {},
                  req |-> NoRequest,
                  resp |-> [status |-> 0, body |-> FALSE, user |-> NoUser]] :
                     a \in BOOLEAN, r \in BOOLEAN}

Tick ==
    /\ call.now < MaxTime
    /\ call' = [call EXCEPT !.fn = "tick", !.now = @ + 1]
    /\ UNCHANGED <<store_vars, fanout>>

(* POST /api/v1/login with the credentials of a user of the role *)
Login(role) ==
    /\ call.issued < MaxSessions
    /\ call' = [call EXCEPT
                   !.fn = "login",
                   !.issued = @ + 1,
                   !.sessions = create_session(@, call.issued + 1, role, call.now)]
    /\ UNCHANGED <<store_vars, fanout>>

(* POST /api/v1/logout, lines 2626-2640 *)
Logout(req) ==
    LET a == _auth(call.cfg, call.sessions, req, call.now) IN
    /\ req.endpoint = "read"
    /\ req.registration_token = NULL
    /\ req.cookie # NoToken
    /\ call' = [call EXCEPT
                   !.fn = "logout",
                   !.req = req,
                   !.resp = [status |-> 200, body |-> FALSE, user |-> a.user],
                   !.sessions = delete_session(a.sessions, req.cookie),
                   !.revoked = @ \cup {s.token : s \in {x \in a.sessions : x.token = req.cookie}}]
    /\ UNCHANGED <<store_vars, fanout>>

(* Any request to an endpoint of the three classes *)
Request(req) ==
    LET g == Gate(call.cfg, call.sessions, req, call.now) IN
    /\ call' = [call EXCEPT
                   !.fn = "request",
                   !.req = req,
                   !.resp = [status |-> g.status, body |-> g.body, user |-> g.user],
                   !.sessions = g.sessions]
    /\ UNCHANGED <<store_vars, fanout>>

NextAuth ==
    \/ Tick
    \/ \E role \in Roles : Login(role)
    \/ \E req \in Requests : Logout(req)
    \/ \E req \in Requests : Request(req)

SpecAuth == InitAuth /\ [][NextAuth]_vars

----------------------------------------------------------------------------
(* POST /api/v1/discover: the targets handed to the probe executor.        *)

MaxHostList == 3
DefaultMaxHosts == 1024

(* Addresses of the network 10.0.0.0/29, by offset *)
Addresses ==
    <<"10.0.0.0", "10.0.0.1", "10.0.0.2", "10.0.0.3",
      "10.0.0.4", "10.0.0.5", "10.0.0.6", "10.0.0.7">>

(* hosts of the body: not a list, or a list of blank strings and addresses *)
HostChoices == {"", "10.0.0.1", "10.0.0.2"}

HostLists == UNION {[1 .. n -> HostChoices] : n \in 0 .. MaxHostList}

(* cidr of the body: absent, unparsable, or 10.0.0.0/prefix *)
CidrChoices == {NULL, "bad"} \cup {"29", "30", "31", "32"}

PrefixSize(cidr) ==
    CASE cidr = "29" -> 8 [] cidr = "30" -> 4 [] cidr = "31" -> 2 [] cidr = "32" -> 1

(* ipaddress network.hosts(): without network and broadcast address,       *)
(* except for /31 and /32                                                   *)
net_hosts(cidr) ==
    LET size == PrefixSize(cidr) IN
    IF size <= 2 THEN [i \in 1 .. size |-> Addresses[i]]
    ELSE [i \in 1 .. size - 2 |-> Addresses[i + 1]]

(* max_hosts of the body: absent or a positive number *)
MaxHostsChoices == {0, 1, 2, 4}

max_hosts_of(body) ==
    IF body.max_hosts = 0 THEN DefaultMaxHosts ELSE body.max_hosts

RECURSIVE stripped_hosts(_)
stripped_hosts(hosts) ==
    IF hosts = <<>> THEN <<>>
    ELSE IF Head(hosts) = "" THEN stripped_hosts(Tail(hosts))
    ELSE <<Head(hosts)>> \o stripped_hosts(Tail(hosts))

FirstN(seq, n) == SubSeq(seq, 1, IF n < Len(seq) THEN n ELSE Len(seq))

(* Lines 3049-3064: status and targets *)
discover_targets(body) ==
    IF body.hosts.given
    THEN [status |-> 200, targets |-> stripped_hosts(body.hosts.list)]
    ELSE IF body.cidr # NULL
    THEN IF body.cidr = "bad"
         THEN [status |-> 400, targets |-> <<>>]
         ELSE [status |-> 200,
               targets |-> FirstN(net_hosts(body.cidr), max_hosts_of(body))]
    ELSE [status |-> 400, targets |-> <<>>]

DiscoverBodies ==
    [hosts : {[given |-> FALSE, list |-> <<>>]}
                \cup {[given |-> TRUE, list |-> l] : l \in HostLists},
     cidr : CidrChoices, max_hosts : MaxHostsChoices]

InitDiscover ==
    /\ InitStore
    /\ db_cf_api = FALSE
    /\ fanout = NoFanout
    /\ call \in {[fn |-> "request", body |-> b, status |-> 0, probed |-> <<>>] :
                    b \in DiscoverBodies}

(* The handler up to the executor: every target is submitted to probe *)
DiscoverRequest ==
    LET d == discover_targets(call.body) IN
    /\ call.fn = "request"
    /\ call' = [call EXCEPT !.fn = "discover", !.status = d.status,
                            !.probed = d.targets]
    /\ UNCHANGED <<store_vars, fanout>>

NextDiscover == DiscoverRequest

SpecDiscover == InitDiscover /\ [][NextDiscover]_vars

----------------------------------------------------------------------------
(* Event log and webhook notifier: the create_event sites of               *)
(* _check_controlled_files, poll_and_record and the ack handler, each with  *)
(* the _notify_webhook call that follows it or not, and the detached send   *)
(* threads.  One device; its last_state and the main version of its latest  *)
(* successful snapshot are kept.                                            *)

MaxWebhookEvents == 3

(* What urlopen(req, timeout=2.0).read() of a send thread comes to *)
WebhookOutcomes == {"ok", "error", "timeout"}

log_event(w, event_type) ==
    [w EXCEPT !.events = Append(@, [id |-> Len(@) + 1, event_type |-> event_type])]

(* _notify_webhook: nothing without a webhook URL, else a daemon thread *)
_notify_webhook(w, event_id) ==
    IF ~w.webhook_url THEN w
    ELSE [w EXCEPT !.threads = @ \cup {event_id}]

(* create_event followed by _notify_webhook *)
log_and_notify(w, event_type) ==
    _notify_webhook(log_event(w, event_type), Len(w.events) + 1)

InitWebhook ==
    /\ InitStore
    /\ db_cf_api \in BOOLEAN
    /\ fanout = NoFanout
    /\ call \in {[fn |-> "none", webhook_url |-> u, events |-> <<>>,
                  threads |-> {}, posts |-> <<>>,
                  last_state |-> NULL, prev_main |-> NULL] : u \in BOOLEAN}

(* poll_and_record from the differ on, for a poll outcome, the state        *)
(* computed for it and whether the differ found changes                     *)
ReconcileEvents(success, new_main, new_state, changed) ==
    LET w1 == IF changed THEN log_and_notify(call, "controlled_files_change")
              ELSE call
        w2 == IF new_state # call.last_state
              THEN log_and_notify(w1, "state_change") ELSE w1
        w3 == IF success /\ call.prev_main # new_main
              THEN log_and_notify(w2, IF call.prev_main = NULL
                                      THEN "version_observed"
                                      ELSE "version_change")
              ELSE w2
    IN  /\ changed => success /\ db_cf_api /\ call.prev_main # NULL
        /\ success <=> new_state # "offline"
        /\ new_state = "files_changed" => changed
        /\ Len(w3.events) <= MaxWebhookEvents
        /\ call' = [w3 EXCEPT !.fn = "poll_and_record",
                              !.last_state = new_state,
                              !.prev_main = IF success THEN new_main ELSE @]
        /\ UNCHANGED <<store_vars, fanout>>

(* POST /api/v1/devices/<id>/ack-controlled-files *)
AckControlledFiles ==
    /\ Len(call.events) < MaxWebhookEvents
    /\ call' = [log_event(call, "controlled_files_ack") EXCEPT
                   !.fn = "ack", !.last_state = "ok"]
    /\ UNCHANGED <<store_vars, fanout>>

(* A send thread runs to its end; an exception of the POST is swallowed *)
Send(event_id, outcome) ==
    /\ event_id \in call.threads
    /\ call' = [call EXCEPT
                   !.fn = "send",
                   !.threads = @ \ {event_id},
                   !.posts = Append(@, [event_id |-> event_id, outcome |-> outcome])]
    /\ UNCHANGED <<store_vars, fanout>>

NextWebhook ==
    \/ \E success \in BOOLEAN, new_main \in Versions, new_state \in States,
          changed \in BOOLEAN :
           ReconcileEvents(success, new_main, new_state, changed)
    \/ AckControlledFiles
    \/ \E event_id \in 1 .. MaxWebhookEvents, outcome \in WebhookOutcomes :
           Send(event_id, outcome)

SpecWebhook == InitWebhook /\ [][NextWebhook]_vars

----------------------------------------------------------------------------
(* Database.baseline_allows called on its own, any number of times, over    *)
(* baselines with and without globs.                                        *)

MaxAllowsCalls == 2

AllowsVersions == {"1.8.2", "1.8.3", "1.9.0", "a.1"}
AllowsGlobs == {"1.8.*", "1.?.0", "A.*"}

AllowsBaselines ==
    [expected_main_version : {"1.8.2", "1.9.0"},
     allowed_main_globs : SUBSET AllowsGlobs]

InitAllows ==
    /\ InitStore
    /\ db_cf_api = FALSE
    /\ fanout = NoFanout
    /\ call = [fn |-> "none", calls |-> <<>>]

BaselineAllows(baseline, observed_main) ==
    /\ Len(call.calls) < MaxAllowsCalls
    /\ call' = [fn |-> "baseline_allows",
                calls |-> Append(call.calls,
                                 [baseline |-> baseline,
                                  observed_main |-> observed_main,
                                  result |-> baseline_allows(baseline, observed_main)])]
    /\ UNCHANGED <<store_vars, fanout>>

NextAllows ==
    \E baseline \in AllowsBaselines, observed_main \in AllowsVersions :
        BaselineAllows(baseline, observed_main)

SpecAllows == InitAllows /\ [][NextAllows]_vars

----------------------------------------------------------------------------
(* The state write of poll_and_record (lines 2185-2220) on one device row   *)
(* that keeps last_state_at, with a clock that starts at 1; a last_state_at *)
(* of NoId is NULL.                                                         *)

MaxClock == 5

(* Database.update_device_state: last_state, last_state_at and updated_at   *)
(* are set together                                                         *)
write_device_state(row, state, now) ==
    [row EXCEPT !.last_state = state, !.last_state_at = now, !.updated_at = now]

InitStateWrite ==
    /\ InitStore
    /\ db_cf_api = FALSE
    /\ fanout = NoFanout
    /\ call = [fn |-> "none", now |-> 1, new_state |-> NULL, emitted |-> FALSE,
               device |-> [last_state |-> NULL, last_state_at |-> NoId,
                           updated_at |-> 1]]

ClockTick ==
    /\ call.now < MaxClock
    /\ call' = [call EXCEPT !.fn = "tick", !.now = @ + 1]
    /\ UNCHANGED <<store_vars, fanout>>

(* if new_state: update_device_state; if new_state and old_state !=         *)
(* new_state: create_event('state_change')                                  *)
ReconcileState(new_state) ==
    /\ call' = [call EXCEPT
                   !.fn = "poll_and_record",
                   !.new_state = new_state,
                   !.device = write_device_state(@, new_state, call.now),
                   !.emitted = call.device.last_state # new_state]
    /\ UNCHANGED <<store_vars, fanout>>

NextStateWrite ==
    \/ ClockTick
    \/ \E new_state \in States : ReconcileState(new_state)

SpecStateWrite == InitStateWrite /\ [][NextStateWrite]_vars

----------------------------------------------------------------------------
(* App._check_controlled_files called on its own over payloads that report  *)
(* up to two files, with a rule of the device's triple in a store that has  *)
(* the controlled-file methods.                                             *)

DifferPaths == {"a.yml", "b.txt"}

(* The files array of a payload: absent, or one entry at most per path *)
DifferFiles ==
    {NoFiles} \cup
    { [supported |-> TRUE,
       entries |-> {[path |-> p, fingerprint |-> f[p]] : p \in ps}] :
          ps \in SUBSET DifferPaths, f \in [DifferPaths -> Fingerprints] }

DifferPatterns == { {"*.yml"}, {"*.yml", "b.txt"} }

InitDiffer ==
    /\ devices = <<>>
    /\ baselines = {}
    /\ snapshots = <<>>
    /\ events = <<>>
    /\ workers = [w \in Workers |-> Idle]
    /\ rule_requests = {}
    /\ version_catalog = {}
    /\ db_cf_api = TRUE
    /\ fanout = NoFanout
    /\ controlled_file_rules \in
           { {[triple |-> "t1", paths |-> ps, mode |-> "auto", max_bytes |-> 8192]} :
                 ps \in DifferPatterns }
    /\ call \in { [fn |-> "arguments", prev |-> prev, files |-> files,
                   raised |-> FALSE, changes |-> {}] :
                     prev \in {{}} \cup {{[id |-> 1, device_id |-> 1, success |-> TRUE,
                                           main_version |-> "1.0", files |-> pf]} :
                                            pf \in DifferFiles},
                     files \in DifferFiles }

CheckControlledFiles ==
    LET differ == _check_controlled_files(
                      [id |-> 1, triple |-> "t1", last_state |-> NULL],
                      [success |-> TRUE, main_version |-> "1.0", files |-> call.files],
                      call.prev, 2, <<>>)
    IN  /\ call.fn = "arguments"
        /\ call' = [call EXCEPT !.fn = "_check_controlled_files",
                                !.raised = differ.raised,
                                !.changes = differ.changes]
        /\ UNCHANGED <<store_vars, fanout>>

NextDiffer == CheckControlledFiles

SpecDiffer == InitDiffer /\ [][NextDiffer]_vars

----------------------------------------------------------------------------
(* The timing of the scheduler loop (App.start_scheduler.loop): a pass that *)
(* takes some time, then the wait of the finally clause.  Times are whole   *)
(* seconds on a clock; stop is not signalled.                               *)

MaxNow == 12
MaxElapsed == 4

(* poll_interval_s > 0, or the scheduler is not started *)
PollIntervals == {2, 3}

(* The timeout handed to self._stop_event.wait *)
wait_timeout(poll_interval_s, elapsed) == poll_interval_s

InitSchedule ==
    /\ InitStore
    /\ db_cf_api = FALSE
    /\ fanout = NoFanout
    /\ call \in {[fn |-> "pass_start", poll_interval_s |-> i, now |-> 0,
                  pass_start |-> 0, passes |-> 0,
                  elapsed |-> 0, waited |-> 0] : i \in PollIntervals}

(* try: list_devices, the executor's with block *)
RunPass(elapsed) ==
    /\ call.fn \in {"pass_start", "wait"}
    /\ call.now + elapsed + call.poll_interval_s <= MaxNow
    /\ call' = [call EXCEPT !.fn = "pass",
                            !.pass_start = call.now,
                            !.passes = IF @ < 2 THEN @ + 1 ELSE @,
                            !.elapsed = elapsed,
                            !.now = @ + elapsed]
    /\ UNCHANGED <<store_vars, fanout>>

(* finally: self._stop_event.wait(self.poll_interval_s) *)
WaitInterval ==
    LET t == wait_timeout(call.poll_interval_s, call.elapsed) IN
    /\ call.fn = "pass"
    /\ call' = [call EXCEPT !.fn = "wait", !.waited = t, !.now = @ + t]
    /\ UNCHANGED <<store_vars, fanout>>

NextSchedule ==
    \/ \E elapsed \in 0 .. MaxElapsed : RunPass(elapsed)
    \/ WaitInterval

SpecSchedule == InitSchedule /\ [][NextSchedule]_vars

----------------------------------------------------------------------------
(* Two threads in Database.upsert_device_by_key (two register requests of   *)
(* the threading HTTP server).  get_device_by_key, update_device and        *)
(* create_device each take Database._lock on their own; the lock is free    *)
(* between the lookup and the write.                                        *)

RaceThreads == {1, 2}
RaceKeys == {"k1", "k2", "k3"}

NoResult == [id |-> NoId, action |-> NULL]

(* INSERT INTO devices: device_key is UNIQUE, ids are AUTOINCREMENT *)
race_create_device(rows, device_key, ip) ==
    IF \E r \in rows : r.device_key = device_key
    THEN [rows |-> rows, result |-> [id |-> NoId, action |-> "IntegrityError"]]
    ELSE [rows |-> rows \cup {[id |-> Cardinality(rows) + 1,
                               device_key |-> device_key, ip |-> ip]},
          result |-> [id |-> Cardinality(rows) + 1, action |-> "created"]]

race_update_device(rows, id, ip) ==
    [rows |-> {IF r.id = id THEN [r EXCEPT !.ip = ip] ELSE r : r \in rows},
     result |-> [id |-> id, action |-> "updated"]]

InitRace ==
    /\ InitStore
    /\ db_cf_api = FALSE
    /\ fanout = NoFanout
    /\ call \in {[fn |-> "none", rows |-> rows, before |-> rows,
                  threads |-> [t \in RaceThreads |->
                                  [pc |-> "called", device_key |-> k[t],
                                   existing |-> NoId, result |-> NoResult]]] :
                     k \in [RaceThreads -> RaceKeys],
                     rows \in {{}} \cup {{[id |-> 1, device_key |-> x, ip |-> 0]} :
                                             x \in RaceKeys}}

(* existing = self.get_device_by_key(device_key) *)
LookupByKey(t) ==
    LET me == call.threads[t]
        found == {r \in call.rows : r.device_key = me.device_key}
    IN  /\ me.pc = "called"
        /\ call' = [call EXCEPT
                       !.fn = "get_device_by_key",
                       !.threads[t].pc = "looked",
                       !.threads[t].existing =
                           IF found = {} THEN NoId ELSE (CHOOSE r \in found : TRUE).id]
        /\ UNCHANGED <<store_vars, fanout>>

(* if existing: update_device, 'updated'; else create_device, 'created' *)
WriteByKey(t) ==
    LET me == call.threads[t]
        w == IF me.existing # NoId
             THEN race_update_device(call.rows, me.existing, t)
             ELSE race_create_device(call.rows, me.device_key, t)
    IN  /\ me.pc = "looked"
        /\ call' = [call EXCEPT
                       !.fn = "upsert_device_by_key",
                       !.rows = w.rows,
                       !.threads[t].pc = "returned",
                       !.threads[t].result = w.result]
        /\ UNCHANGED <<store_vars, fanout>>

NextRace ==
    \/ \E t \in RaceThreads : LookupByKey(t)
    \/ \E t \in RaceThreads : WriteByKey(t)

SpecRace == InitRace /\ [][NextRace]_vars

----------------------------------------------------------------------------
(* C1: the state a reconcile computes is offline exactly when the poll      *)
(* failed; otherwise no_baseline exactly when the device's triple has no    *)
(* baseline; otherwise mismatch exactly when the baseline does not allow    *)
(* the observed main version; otherwise files_changed exactly when the      *)
(* differ's change list is non-empty and ok exactly when it is empty.       *)
C1_StateFunction ==
    call.fn = "_compute_state_and_message" =>
        LET st == call.state
            success == call.res.success
            has == call.baseline # {}
            allowed == has /\ baseline_allows(CHOOSE b \in call.baseline : TRUE,
                                              call.res.main_version)
            changed == call.controlled_changes # {}
        IN  /\ st \in States
            /\ (st = "offline") <=> ~success
            /\ success => ((st = "no_baseline") <=> ~has)
            /\ (success /\ has) => ((st = "mismatch") <=> ~allowed)
            /\ (success /\ allowed) =>
                   /\ (st = "files_changed") <=> changed
                   /\ (st = "ok") <=> ~changed

C1_Witness ==
    /\ call.fn = "_compute_state_and_message"
    /\ call.state = "files_changed"
    /\ call.res.main_version = "1.1"

----------------------------------------------------------------------------
(* No reconcile is between its steps: every operation begun has completed *)
Quiescent == \A w \in Workers : workers[w].pc = "idle"

EventsOf(device_id, event_type) ==
    { e \in Rows(events) : e.device_id = device_id /\ e.event_type = event_type }

(* A controlled_files_change event of the device with no ack event after it *)
UnackedChange(device_id) ==
    \E c \in EventsOf(device_id, "controlled_files_change") :
        \A a \in EventsOf(device_id, "controlled_files_ack") : a.id < c.id

(* C2: after every completed operation (reconcile, register, discover, ack, *)
(* baseline upsert) a device's last_state equals the state function of its  *)
(* most recent snapshot, except that files_changed stays over later ok      *)
(* snapshots while no ack is recorded.                                      *)
C2_LastStateTracksSnapshot ==
    Quiescent =>
        \A d \in Rows(devices) :
            get_latest_snapshot(d.id) # {} =>
                \/ d.last_state = list_status(d.id)
                \/ /\ d.last_state = "files_changed"
                   /\ list_status(d.id) = "ok"
                   /\ UnackedChange(d.id)

(* C3: once a controlled_files_change event has been emitted for a device,  *)
(* every later read of the aggregated status view reports the device as     *)
(* files_changed, through any later reconciles, until an ack for the device *)
(* is recorded.                                                             *)
C3_StickyFilesChanged ==
    \A d \in Rows(devices) :
        UnackedChange(d.id) => list_status(d.id) = "files_changed"

(* The step is an ack of the device: it appends a controlled_files_ack event *)
AckStep(device_id) ==
    /\ Len(events') > Len(events)
    /\ events'[Len(events')].event_type = "controlled_files_ack"
    /\ events'[Len(events')].device_id = device_id

IdOrNone(rows) == IF rows = {} THEN NoId ELSE (CHOOSE r \in rows : TRUE).id

(* The step appends exactly one event and changes no earlier one *)
AppendsOneEvent ==
    /\ Len(events') = Len(events) + 1
    /\ SubSeq(events', 1, Len(events)) = events

C5_OldStateChains ==
    \A d \in DeviceIds :
        \A e \in EventsOf(d, "state_change") :
            LET before == Latest({ p \in EventsOf(d, "state_change") : p.id < e.id })
            IN  e.old_state = IF before = {} THEN NULL
                              ELSE (CHOOSE p \in before : TRUE).new_state

(* The step appends a state_change event of the device *)
StateChangeStep(device_id) ==
    /\ Len(events') > Len(events)
    /\ \E i \in Len(events) + 1 .. Len(events') :
           /\ events'[i].event_type = "state_change"
           /\ events'[i].device_id = device_id

NewStateChange(device_id) ==
    CHOOSE e \in Rows(events') \ Rows(events) :
        e.event_type = "state_change" /\ e.device_id = device_id

(* C6: at the moment a state_change event is inserted, the device's stored  *)
(* last_state equals the event's new_state, for every interleaving of       *)
(* reconciles of the same device running concurrently (no ack involved).    *)
C6_StateMatchesEvent ==
    [][\A d \in DeviceIds :
          (StateChangeStep(d) /\ EventsOf(d, "controlled_files_ack") = {}) =>
              devices'[d].last_state = NewStateChange(d).new_state]_vars

(* The reconcile that takes the step from "updated" to idle *)
Emitting(w) == workers[w].pc = "updated" /\ workers'[w].pc = "idle"

(* C7: a state_change event with new_state files_changed is never inserted  *)
(* unless a controlled_files_change event of the same device, created in    *)
(* the same reconcile pass (for the snapshot of that pass), already exists  *)
(* in the event log.                                                        *)
C7_ChangeEventFirst ==
    [][\A d \in DeviceIds :
          (StateChangeStep(d) /\ NewStateChange(d).new_state = "files_changed") =>
              \E w \in Workers :
                  /\ Emitting(w)
                  /\ workers[w].device.id = d
                  /\ \E c \in EventsOf(d, "controlled_files_change") :
                         c.current_snapshot_id = workers[w].snapshot_id]_vars

C7_Witness ==
    \E e \in EventsOf(1, "state_change") :
        /\ e.new_state = "files_changed"
        /\ \E c \in EventsOf(1, "controlled_files_change") : c.id < e.id

(* The reconcile that takes the step from the poll to the computed state *)
Recording(w) == workers[w].pc = "polling" /\ workers'[w].pc = "computed"

(* Paths matching a rule POSTed for the triple that the previous successful *)
(* poll and this one both report, with different fingerprints               *)
DifferingPaths(triple, prev_files, curr_files) ==
    { p \in Paths :
        /\ \E r \in rule_requests :
               r.triple = triple /\ \E pat \in r.paths : _path_matches(pat, p)
        /\ \E a \in prev_files.entries, b \in curr_files.entries :
               a.path = p /\ b.path = p /\ a.fingerprint # b.fingerprint }

(* C8: when two consecutive successful polls of a device governed by a      *)
(* controlled-file rule report different fingerprints for a path matching   *)
(* the rule (the earlier payload having a files array), the reconcile of    *)
(* the later poll emits a controlled_files_change event listing that path   *)
(* with its old and new fingerprints, and the state becomes files_changed   *)
(* if the baseline allows the observed version.                             *)
C8_ChangeDetected ==
    [][\A w \in Workers :
          Recording(w) =>
              LET me == workers[w]
                  res == snapshots'[Len(snapshots')]
                  prev_files == PayloadFiles(me.prev)
                  differing == DifferingPaths(me.device.triple, prev_files, res.files)
                  baseline == get_baseline(me.device.triple)
              IN  (res.success /\ prev_files.supported /\ res.files.supported
                      /\ differing # {}) =>
                      /\ \E c \in Rows(events') \ Rows(events) :
                             /\ c.event_type = "controlled_files_change"
                             /\ c.device_id = me.device.id
                             /\ \A p \in differing :
                                    [path |-> p,
                                     old |-> FingerprintOf(prev_files.entries, p),
                                     new |-> FingerprintOf(res.files.entries, p)]
                                        \in c.changes
                      /\ (baseline # {}
                            /\ baseline_allows(CHOOSE b \in baseline : TRUE,
                                                res.main_version))
                             => workers'[w].new_state = "files_changed"]_vars

SnapshotsOf(table, device_id) == { r \in Rows(table) : r.device_id = device_id }

(* C9: every reconcile appends exactly one snapshot of its device, whether  *)
(* the poll succeeded or failed; no step decreases the number of snapshots  *)
(* of a device, and no step modifies an existing snapshot row.              *)
C9_SnapshotsAppendOnly ==
    [][/\ \A w \in Workers :
             (workers[w].pc = "polling" /\ workers'[w].pc # "polling") =>
                 /\ Recording(w)
                 /\ Len(snapshots') = Len(snapshots) + 1
                 /\ snapshots'[Len(snapshots')].device_id = workers[w].device.id
       /\ \A w \in Workers :
             (workers'[w].pc # workers[w].pc /\ ~Recording(w)) =>
                 snapshots' = snapshots
       /\ Len(snapshots') >= Len(snapshots)
       /\ SubSeq(snapshots', 1, Len(snapshots)) = snapshots
       /\ \A d \in DeviceIds :
             Cardinality(SnapshotsOf(snapshots', d))
                 >= Cardinality(SnapshotsOf(snapshots, d))]_vars

(* A reconcile whose poll failed has recorded its snapshot after an earlier *)
(* snapshot of the device                                                   *)
C9_Witness ==
    \E w \in Workers :
        /\ workers[w].pc = "computed"
        /\ ~workers[w].success
        /\ workers[w].snapshot_id = 2
        /\ snapshots[2].device_id = workers[w].device.id
        /\ ~snapshots[2].success

VersionEventTypes == {"version_observed", "version_change"}

(* The reconcile that takes the step from idle to the poll *)
Starting(w) == workers[w].pc = "idle" /\ workers'[w].pc = "polling"

(* C10: a reconcile emits exactly one version event iff its poll succeeded  *)
(* and the polled main_version differs from prev_main, the main_version of  *)
(* the latest successful snapshot read before the poll: version_observed    *)
(* with old null when prev_main is null, version_change with old prev_main  *)
(* otherwise; a failed poll or an unchanged version emits none.             *)
C10_VersionEvents ==
    [][\A w \in Workers :
          /\ Starting(w) =>
                 LET d == workers'[w].device.id
                     ok == { s \in SnapshotsOf(snapshots, d) : s.success }
                     last == { s \in ok : \A o \in ok : o.id <= s.id }
                 IN  workers'[w].prev_main =
                         IF last = {} THEN NULL
                         ELSE (CHOOSE s \in last : TRUE).main_version
          /\ (Starting(w) \/ Recording(w)
                \/ (workers[w].pc = "computed" /\ workers'[w].pc = "updated")) =>
                 \A e \in Rows(events') \ Rows(events) :
                     e.event_type \notin VersionEventTypes
          /\ Emitting(w) =>
                 LET me == workers[w]
                     polled == snapshots[me.snapshot_id]
                     emitted == { e \in Rows(events') \ Rows(events) :
                                    e.event_type \in VersionEventTypes }
                 IN  IF polled.success /\ polled.main_version # me.prev_main
                     THEN /\ Cardinality(emitted) = 1
                          /\ \A e \in emitted :
                                 /\ e.device_id = me.device.id
                                 /\ e.event_type = IF me.prev_main = NULL
                                                   THEN "version_observed"
                                                   ELSE "version_change"
                                 /\ e.old_state = me.prev_main
                                 /\ e.new_state = polled.main_version
                     ELSE emitted = {}]_vars

(* A version_change event follows a version_observed event of the device *)
C10_Witness ==
    \E a \in EventsOf(1, "version_observed"), b \in EventsOf(1, "version_change") :
        /\ a.old_state = NULL
        /\ b.old_state = a.new_state
        /\ b.new_state # a.new_state
        /\ a.id < b.id

(* The reconcile of thread w is the first of its device to complete: no     *)
(* other reconcile is in flight, and the log holds no event of the device   *)
(* (a completed reconcile of a device whose last_state is null always       *)
(* leaves a state_change event).                                            *)
FirstReconcile(w) ==
    /\ Emitting(w)
    /\ \A x \in Workers : x # w => workers[x].pc = "idle"
    /\ \A e \in Rows(events) : e.device_id # workers[w].device.id

(* C11: for every device, however it was created (manual create, register, *)
(* discover), its first successful reconcile emits a version_observed event *)
(* with old null and new the observed main version.                         *)
C11_FirstVersionObserved ==
    [][\A w \in Workers :
          (FirstReconcile(w) /\ snapshots[workers[w].snapshot_id].success) =>
              \E e \in Rows(events') \ Rows(events) :
                  /\ e.event_type = "version_observed"
                  /\ e.device_id = workers[w].device.id
                  /\ e.old_state = NULL
                  /\ e.new_state = snapshots[workers[w].snapshot_id].main_version]_vars

(* The reconcile of thread w ends in this step with its summary returned:   *)
(* it has written the events of lines 2191-2258                             *)
Completes(w) ==
    /\ Emitting(w)
    /\ events' = VersionEvents(workers[w], StateChangeEvents(workers[w], events))

(* The reconcile of thread w ends in this step without having completed *)
Raises(w) ==
    /\ workers[w].pc # "idle"
    /\ workers'[w].pc = "idle"
    /\ ~Completes(w)

(* C12: poll_and_record never raises to its caller: for every device        *)
(* response (a JSON body that is not an object among them) and for a device *)
(* deleted while the reconcile is in flight, it returns a summary.          *)
C12_NeverRaises ==
    [][\A w \in Workers : ~Raises(w)]_vars

(* The fan-out of pass p is over: its executor has been shut down *)
PassOver(p) == fanout.passes[p].pc \in {"wait", "responded"}

(* C13: within one fan-out pass a reconcile that raises for one device does *)
(* not keep the other devices of the pass from being reconciled: every      *)
(* selected device is attempted exactly once, and no other device is.       *)
C13_EveryDeviceAttemptedOnce ==
    \A p \in Passes :
        LET pass == fanout.passes[p] IN
        /\ \A d \in FanoutDevices :
               pass.attempts[d] <= (IF d \in pass.selected THEN 1 ELSE 0)
        /\ PassOver(p) =>
               /\ pass.done = pass.selected
               /\ \A d \in pass.selected : pass.attempts[d] = 1

(* A pass of three devices is over, the reconcile of one of them raised *)
C13_Witness ==
    \E p \in Passes :
        /\ PassOver(p)
        /\ Cardinality(fanout.passes[p].selected) = MaxFanoutDevices
        /\ Cardinality(fanout.passes[p].raised) = 1

(* C14: the scheduler loop survives any exception raised during a pass, a   *)
(* failure to enumerate the enabled devices among them: as long as stop has *)
(* not been signalled the loop thread has not ended, so that a further pass *)
(* is still to be started.                                                  *)
C14_LoopSurvives ==
    ~fanout.stop => fanout.passes["scheduler"].pc \notin {"dead", "exited"}

(* The loop thread has ended by an exception and stop was never signalled *)
C14_Witness ==
    ~fanout.stop /\ fanout.passes["scheduler"].pc = "dead"

(* The loop is between passes, or has ended *)
NoPassInProgress ==
    fanout.passes["scheduler"].pc \in {"check", "wait", "unwinding", "exited", "dead"}

(* C15: after stop_scheduler no new pass starts once the pass in progress   *)
(* (if any) is over; the reconciles in flight run to completion, the pass   *)
(* ending only when each of its devices is done; and the loop eventually    *)
(* terminates.                                                              *)
C15_StopEndsLoop ==
    /\ [][(fanout.stop /\ NoPassInProgress) =>
              fanout.passes["scheduler"].pc' \notin {"list", "fanout"}]_vars
    /\ [][(fanout.passes["scheduler"].pc = "fanout"
             /\ fanout.passes["scheduler"].pc' # "fanout") =>
              /\ fanout.passes["scheduler"].running = {}
              /\ fanout.passes["scheduler"].done = fanout.passes["scheduler"].selected]_vars
    /\ (fanout.stop ~> fanout.passes["scheduler"].pc \in {"exited", "dead"})

(* Stop is signalled while reconciles of a periodic pass are in flight *)
C15_Witness ==
    /\ fanout.stop
    /\ fanout.passes["scheduler"].pc = "fanout"
    /\ fanout.passes["scheduler"].running # {}
    /\ fanout.passes["scheduler"].queue # {}

(* C16: POST /api/v1/poll performs exactly one fan-out pass: every enabled  *)
(* device (of the listed ones when device_ids is a list) is reconciled      *)
(* exactly once, no disabled device is ever probed even if listed, results  *)
(* holds exactly one entry per selected device, and ok + fail is the number *)
(* of selected devices.                                                     *)
C16_PollOnePass ==
    LET pass == fanout.passes["poll"]
        wanted == {d \in fanout.enabled :
                      fanout.device_ids.is_list => d \in fanout.device_ids.ids}
    IN
    /\ \A d \in FanoutDevices \ fanout.enabled : pass.attempts[d] = 0
    /\ \A d \in FanoutDevices : pass.attempts[d] <= 1
    /\ pass.pc = "responded" =>
           /\ pass.selected = wanted
           /\ \A d \in FanoutDevices :
                  pass.attempts[d] = (IF d \in wanted THEN 1 ELSE 0)
           /\ {r.device_id : r \in fanout.response.results} = wanted
           /\ Cardinality(fanout.response.results) = Cardinality(wanted)
           /\ fanout.response.ok + fanout.response.fail = Cardinality(wanted)
           /\ fanout.response.ok =
                  Cardinality({r \in fanout.response.results : r.success})

(* A poll has answered for a list naming two enabled devices and a         *)
(* disabled one, one reconcile having raised                                *)
C16_Witness ==
    /\ fanout.passes["poll"].pc = "responded"
    /\ fanout.device_ids.is_list
    /\ fanout.device_ids.ids \ fanout.enabled # {}
    /\ fanout.passes["poll"].raised # {}
    /\ fanout.response.ok = 1
    /\ fanout.response.fail = 1

(* C17: at every instant the number of reconciles in flight is at most      *)
(* poll_workers, also when a periodic pass and an on-demand poll overlap.   *)
C17_InFlightBounded == InFlight <= poll_workers

(* A periodic pass and a poll request each run poll_workers reconciles *)
C17_Witness ==
    /\ Cardinality(fanout.passes["scheduler"].running) = poll_workers
    /\ Cardinality(fanout.passes["poll"].running) = poll_workers

(* The row get_device_by_key returns has the values of f *)
ReturnsSupplied(row, f) ==
    /\ row.cluster_id = f.cluster_id
    /\ row.vendor = f.vendor
    /\ row.model = f.model
    /\ row.line_no = f.line_no
    /\ row.ip = f.ip
    /\ row.port = f.port
    /\ row.protocol = f.protocol
    /\ row.path = f.path
    /\ row.auth_type = f.auth.type
    /\ row.auth_token = f.auth.token
    /\ row.enabled = (IF f.enabled THEN 1 ELSE 0)

(* C18: after upsert_device_by_key(k, fields), get_device_by_key(k) returns *)
(* exactly the supplied cluster_id, vendor, model, line_no, ip, port,       *)
(* protocol, path, auth and enabled, whether the device was created or      *)
(* updated; an upsert of a key that exists returns 'updated' and the id the *)
(* first upsert returned.                                                   *)
C18_UpsertThenGet ==
    [][LET k == call'.device_key
           before == select_device_by_key(call.table, k)
           after == select_device_by_key(call'.table, k)
       IN /\ Cardinality(after) = 1
          /\ \A row \in after : ReturnsSupplied(row, call'.fields)
          /\ \A row \in before :
                 /\ call'.result.action = "updated"
                 /\ call'.result.id = row.id]_vars

(* A device with a line_no has been upserted again without one *)
C18_Witness ==
    /\ call.fn = "upsert_device_by_key"
    /\ call.result.action = "updated"
    /\ call.fields.line_no = NULL
    /\ \E row \in select_device_by_key(call.table, call.device_key) :
           row.line_no # NULL

(* C19: in every reachable state each snapshot and each event references an *)
(* existing device and each device an existing cluster; after               *)
(* delete_device(d) no snapshot or event of d remains, also when a          *)
(* reconcile of d was in flight at the time of the delete.                  *)
C19_ReferentialIntegrity ==
    /\ \A s \in Rows(snapshots) :
           s # GoneSnapshot(s.id) => Exists(devices, s.device_id)
    /\ \A e \in Rows(events) :
           e # GoneEvent(e.id) => Exists(devices, e.device_id)
    /\ \A d \in Rows(devices) :
           d # GoneDevice(d.id) => ClusterExists(d.triple)

(* A device was deleted after its reconcile in flight recorded a snapshot:  *)
(* the snapshot is gone with it                                             *)
C19_Witness ==
    \E w \in Workers :
        /\ workers[w].pc = "updated"
        /\ ~Exists(devices, workers[w].device.id)
        /\ snapshots[workers[w].snapshot_id] = GoneSnapshot(workers[w].snapshot_id)

(* C20: whenever a successful snapshot with main_version v exists for a     *)
(* device of vendor x and model m, recorded by a reconcile, by register or  *)
(* by discover, the version catalog has an entry (x, m, v).                 *)
C20_CatalogHasObserved ==
    \A s \in Rows(snapshots) :
        (s.success /\ Exists(devices, s.device_id)) =>
            get_version_catalog_item(version_catalog,
                                     devices[s.device_id].triple,
                                     s.main_version) # {}

(* A reconcile has recorded a successful snapshot and its catalog entry *)
C20_Witness ==
    \E w \in Workers :
        /\ workers[w].pc = "computed"
        /\ workers[w].success
        /\ get_version_catalog_item(version_catalog, workers[w].device.triple,
                                    workers[w].main_version) # {}

(* C21: a reconcile whose poll result has success=false (an unsupported     *)
(* protocol response whose payload carries versions.main among them)        *)
(* creates no version catalog entry, and ensure_version_catalog_entry on an *)
(* existing (vendor, model, main_version) leaves the entry's changelog,     *)
(* released_at, risk_level and checksum as they are.                        *)
C21_CatalogFrame ==
    [][call'.fn = "poll_and_record" =>
          /\ ~call'.res.success => call'.catalog = call.catalog
          /\ \A r \in call.catalog : r \in call'.catalog]_vars

(* A reconcile has observed a version whose entry carries metadata *)
C21_Witness ==
    /\ call.fn = "poll_and_record"
    /\ call.res.success
    /\ \E r \in get_version_catalog_item(call.catalog, "t1", call.res.main_version) :
           r.changelog_md # NULL

(* The reconcile of this step reports the fingerprints the one before it    *)
(* reported, for a controlled file                                          *)
SameFingerprints ==
    /\ call'.fn = "_check_controlled_files"
    /\ call.payloads # <<>>
    /\ LET prev == call.payloads[Len(call.payloads)]
           curr == call'.payloads[Len(call'.payloads)]
       IN /\ prev.supported /\ curr.supported
          /\ curr.entries # {}
          /\ Fingerprinted(prev.entries) = Fingerprinted(curr.entries)

(* C22: for a device with a controlled-file rule, a second reconcile that   *)
(* reports the same fingerprints for all controlled files as the first      *)
(* issues zero fetches to the file endpoint, for every rule mode and every  *)
(* outcome of the first reconcile's fetches.                                *)
C22_NoRefetch ==
    [][SameFingerprints => call'.fetches = 0]_vars

(* The second reconcile found the observation of the first and did not fetch *)
C22_Witness ==
    /\ call.fn = "_check_controlled_files"
    /\ Len(call.payloads) = 2
    /\ call.payloads[1] = call.payloads[2]
    /\ call.mode = "fetch"
    /\ call.fetches = 0
    /\ \E o \in call.observations : o.snapshot_id = 1 /\ o.source = "fetch"

(* The observations of c are one per key and each references a snapshot    *)
(* whose payload reported its path with its fingerprint                     *)
ObservationsSound(c) ==
    /\ \A o1, o2 \in c.observations :
           (o1.device_id = o2.device_id /\ o1.path = o2.path
                /\ o1.fingerprint = o2.fingerprint) => o1 = o2
    /\ \A o \in c.observations :
           /\ o.snapshot_id \in 1 .. Len(c.payloads)
           /\ [path |-> o.path, fingerprint |-> o.fingerprint]
                  \in Fingerprinted(c.payloads[o.snapshot_id].entries)

(* C23: in every reachable state there is at most one                       *)
(* ControlledFileObservation per (device, path, fingerprint), it is never   *)
(* overwritten once written, and the snapshot it references has a payload   *)
(* that reported that path with that fingerprint.                           *)
C23_ObservationsWrittenOnce ==
    [][/\ ObservationsSound(call')
       /\ \A o \in call.observations : o \in call'.observations]_vars

(* An observation of the first snapshot is still there after the device     *)
(* reported another fingerprint and then the first one again                *)
C23_Witness ==
    /\ Len(call.payloads) = 3
    /\ Fingerprinted(call.payloads[1].entries) # {}
    /\ Fingerprinted(call.payloads[1].entries) # Fingerprinted(call.payloads[2].entries)
    /\ Fingerprinted(call.payloads[1].entries) = Fingerprinted(call.payloads[3].entries)
    /\ Cardinality(call.observations) = 2
    /\ \E o \in call.observations : o.snapshot_id = 1

(* A request carries the configured admin api token *)
CarriesApiToken(c, req) == c.cfg.api_token /\ req.api_token = "right"

(* A request carries an unexpired session of a user of one of the roles *)
CarriesSession(c, req, roles) ==
    \E s \in c.sessions :
        /\ s.token = req.cookie
        /\ c.now < s.expires_at
        /\ s.role \in roles

CarriesRegistrationToken(c, req) ==
    c.cfg.registration_token /\ req.registration_token = "right"

(* C24: a handler behind the admin gate, or register, reaches its body      *)
(* (the store change, the poll, the discover) only for a request carrying   *)
(* the configured api token or an unexpired admin session, register also    *)
(* for the configured registration token; a protected endpoint answers 401  *)
(* to a request with no credentials that hold and an admin endpoint         *)
(* answers 403 to an unexpired session of a non-admin user.                 *)
C24_AdminOnly ==
    [][call'.fn = "request" =>
          LET req == call'.req
              admin == CarriesApiToken(call, req) \/ CarriesSession(call, req, {"admin"})
              known == CarriesApiToken(call, req) \/ CarriesSession(call, req, Roles)
          IN  /\ req.endpoint = "admin" /\ call'.resp.body => admin
              /\ req.endpoint = "register" /\ call'.resp.body =>
                     admin \/ CarriesRegistrationToken(call, req)
              /\ req.endpoint \in {"read", "admin"} /\ ~known =>
                     call'.resp.status = 401 /\ ~call'.resp.body
              /\ req.endpoint = "admin" /\ known /\ ~admin =>
                     call'.resp.status = 403 /\ ~call'.resp.body]_vars

C24_Witness ==
    /\ call.fn = "request"
    /\ call.req.endpoint = "admin"
    /\ call.resp.status = 403
    /\ call.resp.user.role = "viewer"
    /\ \E s \in call.sessions : s.role = "admin"

(* The session of a cookie, as the sessions table holds it *)
SessionsOf(c, token) == {s \in c.sessions : s.token = token}

(* C25: a request or a logout is never given the user of a session at or    *)
(* after the session's expires_at, nor of a session a logout deleted; and   *)
(* whenever the cookie is looked up, an expired session of it is gone from  *)
(* the sessions table afterwards.                                           *)
C25_SessionExpiry ==
    [][call'.fn \in {"request", "logout"} =>
          LET req == call'.req
              looked_up ==
                  /\ req.cookie # NoToken
                  /\ ~CarriesApiToken(call, req)
                  /\ ~(call'.fn = "request" /\ req.endpoint = "register"
                          /\ CarriesRegistrationToken(call, req))
          IN  /\ call'.resp.user.via = "session" =>
                     /\ req.cookie \notin call.revoked
                     /\ \E s \in SessionsOf(call, req.cookie) : call.now < s.expires_at
              /\ looked_up =>
                     \A s \in SessionsOf(call', req.cookie) : call.now < s.expires_at]_vars

C25_Witness ==
    /\ call.fn = "request"
    /\ call.req.cookie # NoToken
    /\ call.req.cookie <= call.issued
    /\ call.req.cookie \notin call.revoked
    /\ call.resp.status = 401
    /\ SessionsOf(call, call.req.cookie) = {}
    /\ call.sessions # {}

(* C26: a discover request that is answered probes at most max_hosts        *)
(* targets, from hosts[] as from a CIDR, and for a CIDR exactly the first   *)
(* max_hosts host addresses of the network.                                 *)
C26_MaxHosts ==
    call.fn = "discover" /\ call.status = 200 =>
        /\ Len(call.probed) <= max_hosts_of(call.body)
        /\ ~call.body.hosts.given =>
               call.probed = FirstN(net_hosts(call.body.cidr), max_hosts_of(call.body))

C26_Witness ==
    /\ call.fn = "discover"
    /\ ~call.body.hosts.given
    /\ call.body.cidr = "29"
    /\ call.body.max_hosts = 2
    /\ call.probed = <<"10.0.0.1", "10.0.0.2">>

(* The POST attempts made or still to be made for an event *)
PostAttempts(event_id) ==
    Cardinality({j \in 1 .. Len(call.posts) : call.posts[j].event_id = event_id})
        + (IF event_id \in call.threads THEN 1 ELSE 0)

(* C27: with a webhook URL configured, every event in the event log, of     *)
(* each of the five core types, has exactly one webhook POST attempt, made  *)
(* or pending on its detached thread.                                       *)
C27_OnePostPerEvent ==
    call.webhook_url =>
        \A i \in 1 .. Len(call.events) : PostAttempts(i) = 1

C27_Witness ==
    /\ call.webhook_url
    /\ call.fn = "poll_and_record"
    /\ Len(call.events) = 3
    /\ \A i \in 1 .. 3 : call.events[i].event_type # "controlled_files_ack"
    /\ \A i \in 1 .. 3 : PostAttempts(i) = 1
    /\ \E j \in 1 .. Len(call.posts) : call.posts[j].outcome = "timeout"
    /\ 1 \in call.threads

(* The error code of the first failing check, in the order of the checks,   *)
(* or NULL when every check passes                                          *)
FirstFailingCheck(protocol, resp) ==
    IF protocol # "dvp1-http" THEN "unsupported_device_protocol"
    ELSE IF resp.transport # "response" THEN resp.transport
    ELSE IF resp.status # 200 THEN "http_status"
    ELSE IF resp.body.kind # "object" THEN "invalid_json"
    ELSE IF resp.body.protocol # "dvp" \/ resp.body.protocol_version # 1
    THEN "unsupported_protocol"
    ELSE IF resp.body.main \in {NULL, ""} THEN "missing_versions.main"
    ELSE NULL

(* C28: poll_device returns, with success=true iff the protocol tag is      *)
(* 'dvp1-http', the transport succeeded, the status is 200, the body is a   *)
(* JSON object with protocol='dvp' and protocol_version=1 and versions.main *)
(* is a non-empty string, and otherwise with success=false and the error    *)
(* code of the first failing check.                                         *)
C28_PollOutcome ==
    call.fn = "poll_device" =>
        LET expected == FirstFailingCheck(call.protocol, call.resp) IN
        /\ ~call.res.raised
        /\ call.res.success <=> expected = NULL
        /\ ~call.res.success => call.res.error = expected

C28_Witness ==
    /\ call.fn = "poll_device"
    /\ call.resp.body.kind = "text"
    /\ call.resp.transport = "response"
    /\ call.resp.status = 200
    /\ call.protocol = "dvp1-http"
    /\ call.res.error = "invalid_json"

(* C29: every PollResult poll_device returns has latency_ms populated,      *)
(* the results of the failure outcomes included.                            *)
C29_LatencyPopulated ==
    call.fn = "poll_device" /\ ~call.res.raised => call.res.latency_ms # NULL

C29_Witness ==
    /\ call.fn = "poll_device"
    /\ ~call.res.raised
    /\ ~call.res.success
    /\ call.res.error = "url_error"
    /\ call.res.latency_ms # NULL

(* Shell glob matching stated by lengths: each "*" of the pattern is given  *)
(* a run length, every other position one character, the runs fill the      *)
(* name, and a position that is neither "*" nor "?" meets its own character *)
GlobRun(pat, runs, i) == IF pat[i] = "*" THEN runs[i] ELSE 1

RECURSIVE GlobOffset(_, _, _)
GlobOffset(pat, runs, i) ==
    IF i = 1 THEN 0
    ELSE GlobOffset(pat, runs, i - 1) + GlobRun(pat, runs, i - 1)

GlobMatches(name, pat) ==
    \E runs \in [{i \in DOMAIN pat : pat[i] = "*"} -> 0 .. Len(name)] :
        /\ GlobOffset(pat, runs, Len(pat) + 1) = Len(name)
        /\ \A i \in DOMAIN pat :
               pat[i] \notin {"*", "?"} => name[GlobOffset(pat, runs, i) + 1] = pat[i]

(* C30: every call of baseline_allows(b, v) answers true iff v equals       *)
(* b.expected_main_version or v matches one of b.allowed_main_globs as a    *)
(* case-sensitive shell glob; two calls with the same (b, v) answer the     *)
(* same, whatever was called between them; expected '1.8.2' without globs   *)
(* disallows '1.8.3', and glob '1.8.*' allows '1.8.2' but not '1.9.0'.      *)
C30_BaselineAllows ==
    call.fn = "baseline_allows" =>
        /\ \A i \in DOMAIN call.calls :
               LET c == call.calls[i] IN
               /\ c.result <=>
                      \/ c.observed_main = c.baseline.expected_main_version
                      \/ \E g \in c.baseline.allowed_main_globs :
                             GlobMatches(Chars(c.observed_main), Chars(g))
               /\ c.baseline = [expected_main_version |-> "1.8.2",
                                allowed_main_globs |-> {}]
                     /\ c.observed_main = "1.8.3" => ~c.result
               /\ c.baseline.allowed_main_globs = {"1.8.*"} =>
                      /\ c.observed_main = "1.8.2" => c.result
                      /\ c.observed_main = "1.9.0"
                            /\ c.baseline.expected_main_version = "1.8.2" => ~c.result
        /\ \A i, j \in DOMAIN call.calls :
               /\ call.calls[i].baseline = call.calls[j].baseline
               /\ call.calls[i].observed_main = call.calls[j].observed_main
               => call.calls[i].result = call.calls[j].result

C30_Witness ==
    /\ call.fn = "baseline_allows"
    /\ Len(call.calls) = 2
    /\ call.calls[1].baseline = [expected_main_version |-> "1.9.0",
                                 allowed_main_globs |-> {"1.8.*"}]
    /\ call.calls[1].observed_main = "1.8.2"
    /\ call.calls[1].result
    /\ call.calls[2] = call.calls[1]

(* C31: the status view gives a device the state 'never_polled' iff the     *)
(* device has no snapshot, and no reconcile computes 'never_polled'.        *)
C31_NeverPolled ==
    /\ \A d \in DeviceIds :
           Exists(devices, d) =>
               (list_status(d) = "never_polled"
                   <=> {s \in Rows(snapshots) : s.device_id = d} = {})
    /\ \A w \in Workers : workers[w].new_state # "never_polled"

C31_Witness ==
    /\ \E d \in DeviceIds :
           /\ Exists(devices, d)
           /\ list_status(d) = "offline"
           /\ \A s \in Rows(snapshots) : s.device_id = d /\ ~s.success
           /\ Len(snapshots) = 1
    /\ \E w \in Workers : workers[w].pc = "computed" /\ workers[w].new_state = "offline"

(* A reconcile of the device returns in this step *)
ReconcileCompletes(d) ==
    \E w \in Workers :
        /\ workers[w].pc = "updated"
        /\ workers[w].device.id = d
        /\ workers'[w].pc = "idle"

(* C32: when a reconcile of a device completes, the stored last_state of    *)
(* the device is one of ok, mismatch, offline, no_baseline, files_changed,  *)
(* and a last_state that is one of the five stays one of the five.          *)
C32_LastStateDomain ==
    [][\A d \in DeviceIds :
           /\ Exists(devices', d)
           /\ \/ ReconcileCompletes(d)
              \/ Exists(devices, d) /\ devices[d].last_state \in States
           => devices'[d].last_state \in States]_vars

C32_Witness ==
    /\ \E d \in DeviceIds :
           /\ Exists(devices, d)
           /\ devices[d].last_state = "mismatch"
           /\ \E e \in Rows(events) : e.event_type = "state_change" /\ e.new_state = "ok"
    /\ \A w \in Workers : workers[w].pc = "idle"

(* C33: a reconcile whose computed state equals the device's last_state     *)
(* leaves last_state and last_state_at as they are and emits no             *)
(* state_change event; last_state_at changes only with last_state.          *)
C33_NoWriteWhenUnchanged ==
    [][/\ call'.fn = "poll_and_record" /\ call'.new_state = call.device.last_state =>
              /\ call'.device.last_state = call.device.last_state
              /\ call'.device.last_state_at = call.device.last_state_at
              /\ ~call'.emitted
       /\ call'.device.last_state_at # call.device.last_state_at =>
              call'.device.last_state # call.device.last_state]_vars

C33_Witness ==
    /\ call.fn = "poll_and_record"
    /\ call.new_state = "offline"
    /\ call.device.last_state = "offline"
    /\ ~call.emitted
    /\ call.now = 2

(* The entries of a files array whose path matches a pattern of the rule;   *)
(* none when the payload has no files array                                 *)
SelectedOf(files) ==
    IF files.supported
    THEN { e \in files.entries :
               \E r \in controlled_file_rules : \E pat \in r.paths :
                   _path_matches(pat, e.path) }
    ELSE {}

FingerprintIn(sel, path) ==
    IF \E e \in sel : e.path = path
    THEN (CHOOSE e \in sel : e.path = path).fingerprint
    ELSE NULL

(* C34: the differ's change list is empty when the previous successful      *)
(* payload had no files array; otherwise it holds exactly one record        *)
(* {path, old, new} for each path of prev_sel or curr_sel whose two         *)
(* fingerprints differ, old null for an added path and new null for a       *)
(* removed one, curr_sel being empty when the current payload has no files  *)
(* array.                                                                   *)
C34_ChangeList ==
    call.fn = "_check_controlled_files" =>
        LET prev_supported == call.prev # {} /\ (CHOOSE s \in call.prev : TRUE).files.supported
            prev_sel == IF prev_supported
                        THEN SelectedOf((CHOOSE s \in call.prev : TRUE).files)
                        ELSE {}
            curr_sel == SelectedOf(call.files)
        IN  /\ ~call.raised
            /\ call.changes =
                   IF ~prev_supported THEN {}
                   ELSE { [path |-> p, old |-> FingerprintIn(prev_sel, p),
                                       new |-> FingerprintIn(curr_sel, p)] :
                            p \in { q \in DifferPaths :
                                      FingerprintIn(prev_sel, q) # FingerprintIn(curr_sel, q) } }

C34_Witness ==
    /\ call.fn = "_check_controlled_files"
    /\ call.changes = {[path |-> "a.yml", old |-> "fa", new |-> NULL],
                       [path |-> "b.txt", old |-> NULL, new |-> "fb"]}

(* The differ of the reconcile of thread w failed: the poll succeeded and   *)
(* the store has no controlled-file methods                                 *)
DifferFailed(success) == success /\ ~db_cf_api

C36_WaitIsRemainder ==
    /\ call.fn = "wait" =>
           call.waited = IF call.poll_interval_s > call.elapsed
                         THEN call.poll_interval_s - call.elapsed ELSE 0
    /\ call.fn = "wait" /\ call.elapsed < call.poll_interval_s =>
           call.now = call.pass_start + call.poll_interval_s

C36_Witness ==
    /\ call.fn = "wait"
    /\ call.passes = 2
    /\ call.elapsed = 0
    /\ call.waited = call.poll_interval_s
    /\ call.now = call.pass_start + call.poll_interval_s

(* The reconcile of thread w has recorded its snapshot and has not returned *)
SnapshotVisible(w) ==
    /\ workers[w].pc \in {"computed", "updated"}
    /\ workers[w].snapshot_id \in 1 .. Len(snapshots)
    /\ snapshots[workers[w].snapshot_id] # GoneSnapshot(workers[w].snapshot_id)

(* C37: what a reader of the store sees at any moment never holds the       *)
(* snapshot of a reconcile without that reconcile's last_state and without  *)
(* the state_change and version events derived from it.                     *)
C37_ReconcileAtomic ==
    \A w \in Workers :
        SnapshotVisible(w) =>
            LET me == workers[w] IN
            /\ \A d \in get_device(me.device.id) : d.last_state = me.new_state
            /\ VersionEvents(me, StateChangeEvents(me, events)) = events

C37_Witness ==
    \E w \in Workers :
        /\ SnapshotVisible(w)
        /\ workers[w].pc = "updated"
        /\ list_status(workers[w].device.id) = "offline"
        /\ devices[workers[w].device.id].last_state = "offline"
        /\ \A e \in Rows(events) : e.event_type # "state_change"

(* C38: when two concurrent upsert_device_by_key calls with the same key,   *)
(* unknown before them, have both returned, neither has raised, one         *)
(* reports 'created' and the other 'updated' with the same id, and one      *)
(* device row has the key.                                                  *)
C38_ConcurrentUpsert ==
    \A t, u \in RaceThreads :
        /\ t # u
        /\ call.threads[t].pc = "returned" /\ call.threads[u].pc = "returned"
        /\ call.threads[t].device_key = call.threads[u].device_key
        /\ \A r \in call.before : r.device_key # call.threads[t].device_key
        => /\ call.threads[t].result.action \in {"created", "updated"}
           /\ call.threads[t].result.id = call.threads[u].result.id
           /\ {call.threads[t].result.action, call.threads[u].result.action}
                  = {"created", "updated"}
           /\ Cardinality({r \in call.rows :
                              r.device_key = call.threads[t].device_key}) = 1

C38_Witness ==
    /\ call.threads[1].pc = "returned" /\ call.threads[2].pc = "returned"
    /\ call.threads[1].device_key = "k1" /\ call.threads[2].device_key = "k1"
    /\ call.threads[1].result = [id |-> 1, action |-> "updated"]
    /\ call.threads[2].result = [id |-> 1, action |-> "created"]
    /\ call.before = {}
    /\ call.rows = {[id |-> 1, device_key |-> "k1", ip |-> 1]}
----------------------------------------------------------------------------
(* POST /api/v1/discover: the loop over the completed probes.  The handler  *)
(* thread takes the futures as they complete; for each it appends one item  *)
(* and, for a responder whose payload names supplier, device_type and       *)
(* device_serial, upserts the device and records the probe as a snapshot.   *)
(* device_key_prefix is the empty string.                                   *)

MaxTargets == 3

ProbeTargets == UNION {[1 .. n -> {"10.0.0.1", "10.0.0.2"}] : n \in 0 .. MaxTargets}

ProbeSerials == {1, 2}

ProbeSuccess == [success |-> TRUE, main_version |-> "1.0", files |-> NoFiles]

(* What fut.result() comes to: the probe raised, or a poll result with what *)
(* _infer_from_dvp finds in its payload (device_serial NoId: a field is     *)
(* missing; payload_is_dict FALSE: a success without a JSON object)         *)
ProbeOutcomes ==
    {[raised |-> TRUE, res |-> PollFailure, payload_is_dict |-> FALSE, device_serial |-> NoId],
     [raised |-> FALSE, res |-> PollFailure, payload_is_dict |-> FALSE, device_serial |-> NoId],
     [raised |-> FALSE, res |-> ProbeSuccess, payload_is_dict |-> FALSE, device_serial |-> NoId]}
    \cup
    {[raised |-> FALSE, res |-> ProbeSuccess, payload_is_dict |-> TRUE, device_serial |-> s] :
        s \in ProbeSerials \cup {NoId}}

FailedItem(i, ip) ==
    [target |-> i, ip |-> ip, success |-> FALSE, device_id |-> NoId,
     device_serial |-> NoId, action |-> NULL]

count_created_always(created, action) == created + 1

count_created(created, action) ==
    IF action = "created" THEN created + 1 ELSE created

count_updated(updated, action) ==
    IF action = "created" THEN updated ELSE updated + 1

InitProbe ==
    /\ InitStore
    /\ db_cf_api = FALSE
    /\ fanout = NoFanout
    /\ call \in {[fn |-> "discover", targets |-> t, pending |-> DOMAIN t,
                  items |-> <<>>, created |-> 0, updated |-> 0] :
                    t \in ProbeTargets}

(* Lines 3085-3095: the probe raised, or the device did not answer with a   *)
(* payload; lines 3097-3105: the payload lacks a device field               *)
ProbeFailed(i, out) ==
    /\ call.fn = "discover"
    /\ i \in call.pending
    /\ \/ out.raised
       \/ ~out.res.success
       \/ ~out.payload_is_dict
       \/ out.device_serial = NoId
    /\ call' = [call EXCEPT !.pending = @ \ {i},
                            !.items = Append(@, FailedItem(i, call.targets[i]))]
    /\ UNCHANGED <<store_vars, fanout>>

(* Lines 3107-3148: upsert_device_by_key, the counters, record_snapshot,    *)
(* the item                                                                 *)
ProbeUpsert(i, out) ==
    LET up == upsert_device_by_key(devices, "t1", out.device_serial) IN
    /\ call.fn = "discover"
    /\ i \in call.pending
    /\ ~out.raised /\ out.res.success /\ out.payload_is_dict
    /\ out.device_serial # NoId
    /\ devices' = up.devices
    /\ snapshots' = record_snapshot(up.id, out.res)
    /\ call' = [call EXCEPT !.pending = @ \ {i},
                            !.created = count_created(@, up.action),
                            !.updated = count_updated(@, up.action),
                            !.items = Append(@, [target |-> i, ip |-> call.targets[i],
                                                 success |-> TRUE, device_id |-> up.id,
                                                 device_serial |-> out.device_serial,
                                                 action |-> up.action])]
    /\ UNCHANGED <<baselines, events, workers, db_cf_api, rule_requests,
                   controlled_file_rules, version_catalog, fanout>>

(* Lines 3150-3161: the response, once every future was taken *)
ProbeRespond ==
    /\ call.fn = "discover"
    /\ call.pending = {}
    /\ call' = [call EXCEPT !.fn = "responded"]
    /\ UNCHANGED <<store_vars, fanout>>

NextProbe ==
    \/ \E i \in 1 .. MaxTargets, out \in ProbeOutcomes : ProbeFailed(i, out)
    \/ \E i \in 1 .. MaxTargets, out \in ProbeOutcomes : ProbeUpsert(i, out)
    \/ ProbeRespond

SpecProbe == InitProbe /\ [][NextProbe]_vars

(* C39: the response of a discover request holds exactly one item per       *)
(* target; created + updated is the number of items with success; every     *)
(* successful item stands for one upsert by its serial (a device row with   *)
(* that key and the item's id, "created" for the first item of a serial and *)
(* "updated" for the later ones, as many rows as created) and one snapshot  *)
(* of that device (as many snapshots of a device as successful items of     *)
(* it); a request whose targets all failed leaves devices and snapshots as  *)
(* they were.                                                               *)
C39_DiscoverItems ==
    call.fn = "responded" =>
        LET ok == { k \in 1 .. Len(call.items) : call.items[k].success } IN
        /\ \A i \in 1 .. Len(call.targets) :
               Cardinality({ k \in 1 .. Len(call.items) :
                                /\ call.items[k].target = i
                                /\ call.items[k].ip = call.targets[i] }) = 1
        /\ Len(call.items) = Len(call.targets)
        /\ call.created + call.updated = Cardinality(ok)
        /\ Len(devices) = call.created
        /\ Len(snapshots) = Cardinality(ok)
        /\ \A k \in ok :
               /\ call.items[k].device_id \in 1 .. Len(devices)
               /\ devices[call.items[k].device_id].device_key = call.items[k].device_serial
               /\ call.items[k].action =
                     IF \E j \in ok : j < k /\ call.items[j].device_serial = call.items[k].device_serial
                     THEN "updated" ELSE "created"
        /\ \A d \in 1 .. Len(devices) :
               Cardinality({ s \in 1 .. Len(snapshots) : snapshots[s].device_id = d /\ snapshots[s].success })
                 = Cardinality({ k \in ok : call.items[k].device_id = d })
        /\ (ok = {} => devices = <<>> /\ snapshots = <<>>)

C39_Witness ==
    /\ call.fn = "responded"
    /\ Len(call.targets) = 3
    /\ call.created = 1 /\ call.updated = 1
    /\ \E k \in 1 .. 3 : ~call.items[k].success
    /\ Len(devices) = 1 /\ Len(snapshots) = 2

====
